---- MODULE Spec2Model ----
(***************************************************************************)
(* The scrape-job orchestration engine of backend/app.py and               *)
(* backend/scraper.py: task planning, the single-session and multi-worker  *)
(* schedulers of _run_scraper_job, the pagination loop of _scrape_task     *)
(* and the result merger _merge_task_results.                              *)
(*                                                                         *)
(* The next-state relations share the variables:                           *)
(*   Spec             one job of _run_scraper_job (both scheduler modes),  *)
(*                    _scrape_task taken as one step of the worker         *)
(*   ScrapeSpec       the page loop of _scrape_task, one page per step,    *)
(*                    with the other workers' updates of the seen-id set   *)
(*   MergeSpec        _merge_task_results applied to drawn batches         *)
(*   SubmitSpec       trigger_scraper: validation, the JobRecord and its   *)
(*                    snapshots around one run of the orchestration        *)
(*   ProgressSpec     the consumers of the progress feed, with a clock     *)
(*   NavSpec          scrape_page, one navigation per step                 *)
(*   ProxySpec        the primary proxy of every worker                    *)
(*   FallbackSpec     the attempt loop of the single-session mode          *)
(*   SeenSpec         the page loops of the workers on the seen-id set,    *)
(*                    one statement of the locked block per step           *)
(*   PlanSpec         the parsing of the configured lists and the tasks    *)
(*   SseSpec          ScraperProgressManager and its subscriber streams    *)
(*   GateSpec         RobotsChecker: fetch_robots and is_allowed           *)
(***************************************************************************)
EXTENDS Integers, Sequences, FiniteSets, TLC

(***************************************************************************)
(* Bounds of the model                                                     *)
(***************************************************************************)
\* multi-worker jobs are run with at most this many workers ...
MaxWorkers == 2
\* ... and at most this many tasks; single-session jobs are not restricted
MaxMultiTasks == 2
\* categories configured: at most this many
MaxCategories == 1
\* proxy pool sizes tried: 0 .. MaxPool
MaxPool == 1
\* session launches and releases that fail in one job: at most this many
MaxFailures == 2
\* external ids of the listings the job model draws: 1 .. JobIds
JobIds == 2
\* page_limit of the job model
JobPageLimit == 1
\* page_limit values tried by the page loop model: 1 .. MaxPageLimit
MaxPageLimit == 4
\* listings on a full results page of the page loop model
PageSize == 10
\* longest batch drawn for the merger model
MaxBatchLen == 2
\* running snapshots the orchestration saves in the submission model
MaxSaves == 1
\* the progress feed is watched for this many seconds
MaxClock == 61
\* pages a worker fetches in the model of the seen-id set
MaxSeenPages == 2
\* the longest configured list, in characters
MaxConfigLen == 4
\* the snapshots of one job, and the streams that may subscribe to it
MaxRecords == 102
SubscriberIds == {1, 2}
\* the stream that may fall behind without limit, and the snapshots any
\* other stream may have waiting when the next one is recorded
SlowSubscriber == 1
MaxPending == 2
\* fetch_robots calls on one checker
MaxFetches == 3
\* seconds from one poll of the polling consumer to the next: at most this
MaxPollGap == 2
\* external ids of the listings the merger model draws: 1 .. MergeIds
MergeIds == 2
\* versions of one listing (same external id, other fields) it draws
MergeVersions == 2

(***************************************************************************)
(* Program constants                                                       *)
(***************************************************************************)
MinConcurrency == 1
MaxConcurrency == 4
NoNewPagesStop == 2
MinPages == 1
MaxPages == 50
KeepaliveSeconds == 30
\* scrape_page: MAX_RETRIES
MAX_RETRIES == 3
PollSeconds == 1
\* delays are counted in tenths of a second: the minimum delay of 2.0 s,
\* the default delay of 3.0 s
MinDelay == 20
DefaultDelay == 30

\* a listing without external_id (l.get('external_id') is falsy)
NoId == 0
\* keyword '' = no keyword filter
NoKeyword == ""
\* the task queue's termination sentinel (None)
Sentinel == 0
\* attempt_proxy None: the direct connection
Direct == "direct"

Min(a, b) == IF a < b THEN a ELSE b
Max(a, b) == IF a > b THEN a ELSE b

(***************************************************************************)
(* Listings and the result merger                                          *)
(***************************************************************************)
\* a parsed listing: its dedup key and the rest of its fields
Listing(id, d) == [external_id |-> id, data |-> d]

EmptyMap == [x \in {} |-> 0]

\* faulty variants of the loop body, to test what the properties detect:
\* the keyword is recorded only for an entry that existed before
MergeListingKeywordOnUpdate(m, keyword, listing) ==
    LET ext_id == listing.external_id IN
    IF ext_id = NoId THEN m
    ELSE LET e == IF ext_id \notin DOMAIN m
                  THEN [data |-> listing, keywords |-> {}]
                  ELSE [data |-> listing,
                        keywords |-> IF keyword # NoKeyword
                                     THEN m[ext_id].keywords \cup {keyword}
                                     ELSE m[ext_id].keywords]
         IN [x \in DOMAIN m \cup {ext_id} |-> IF x = ext_id THEN e ELSE m[x]]

\* an entry that exists is replaced whole, its keywords dropped
MergeListingDropsKeywords(m, keyword, listing) ==
    LET ext_id == listing.external_id IN
    IF ext_id = NoId THEN m
    ELSE LET e == [data |-> listing,
                   keywords |-> IF keyword # NoKeyword THEN {keyword} ELSE {}]
         IN [x \in DOMAIN m \cup {ext_id} |-> IF x = ext_id THEN e ELSE m[x]]

\* an entry that exists keeps its data (first wins)
MergeListingFirstWins(m, keyword, listing) ==
    LET ext_id == listing.external_id IN
    IF ext_id = NoId THEN m
    ELSE LET e1 == IF ext_id \notin DOMAIN m
                   THEN [data |-> listing, keywords |-> {}]
                   ELSE m[ext_id]
             e2 == IF keyword # NoKeyword
                   THEN [e1 EXCEPT !.keywords = @ \cup {keyword}]
                   ELSE e1
         IN [x \in DOMAIN m \cup {ext_id} |-> IF x = ext_id THEN e2 ELSE m[x]]

\* a listing without an external id is stored like any other
MergeListingKeepsNoId(m, keyword, listing) ==
    LET ext_id == listing.external_id
        e1 == IF ext_id \notin DOMAIN m
              THEN [data |-> listing, keywords |-> {}]
              ELSE [m[ext_id] EXCEPT !.data = listing]
        e2 == IF keyword # NoKeyword
              THEN [e1 EXCEPT !.keywords = @ \cup {keyword}]
              ELSE e1
    IN [x \in DOMAIN m \cup {ext_id} |-> IF x = ext_id THEN e2 ELSE m[x]]

\* one iteration of the loop of _merge_task_results
MergeListing(m, keyword, listing) ==
    LET ext_id == listing.external_id IN
    IF ext_id = NoId THEN m
    ELSE LET e1 == IF ext_id \notin DOMAIN m
                   THEN [data |-> listing, keywords |-> {}]
                   ELSE [m[ext_id] EXCEPT !.data = listing]
             e2 == IF keyword # NoKeyword
                   THEN [e1 EXCEPT !.keywords = @ \cup {keyword}]
                   ELSE e1
         IN [x \in DOMAIN m \cup {ext_id} |-> IF x = ext_id THEN e2 ELSE m[x]]

RECURSIVE merge_task_results(_, _, _)
merge_task_results(m, keyword, task_listings) ==
    IF task_listings = << >> THEN m
    ELSE merge_task_results(MergeListing(m, keyword, Head(task_listings)),
                            keyword, Tail(task_listings))

(***************************************************************************)
(* The page loop of _scrape_task                                           *)
(***************************************************************************)
\* ext_ids of a page: the non-empty external ids of its listings
ExtIdsOf(page_listings) ==
    {page_listings[i].external_id : i \in DOMAIN page_listings} \ {NoId}

\* new_count: growth of the job-wide seen set by this page (under seen_lock)
NewCount(seen, page_listings) ==
    IF ExtIdsOf(page_listings) # {}
    THEN Cardinality(seen \cup ExtIdsOf(page_listings)) - Cardinality(seen)
    ELSE 0

\* faulty variant: a page with new ids does not reset the count
NoNewAfterNoReset(no_new_pages, new_count) ==
    IF new_count = 0 THEN no_new_pages + 1 ELSE no_new_pages

\* no_new_pages after a page
NoNewAfter(no_new_pages, new_count) ==
    IF new_count = 0 THEN no_new_pages + 1 ELSE 0

\* faulty variant: an empty page does not stop the loop
StopEarlyIgnoringEmptyPage(page_listings, no_new_pages) ==
    no_new_pages >= NoNewPagesStop

\* the early stop test after a page
StopEarly(page_listings, no_new_pages) ==
    page_listings = << >> \/ no_new_pages >= NoNewPagesStop

\* the search URL of a task, and what build_page_url makes of it: seite is
\* the page segment, 0 for a URL without one
ScrapeUrl == [base |-> "search", seite |-> 0]

\* faulty variant: the page segment is one too high
BuildPageUrlOneAhead(base_url, page_num) ==
    IF page_num <= 1 THEN base_url ELSE [base_url EXCEPT !.seite = page_num + 1]

\* KleinanzeigenScraper.build_page_url: page 1 is the URL as it is, page n
\* gets the segment seite:n
build_page_url(base_url, page_num) ==
    IF page_num <= 1 THEN base_url ELSE [base_url EXCEPT !.seite = page_num]

\* the page of results the site serves for a URL
PageServed(url) == IF url.seite = 0 THEN 1 ELSE url.seite

\* the local state of _scrape_task before its first page; fetched: the
\* pages of results its scrape_page calls have asked for
ScrapeStart ==
    [listings_data |-> << >>, no_new_pages |-> 0, pages_scraped_local |-> 0,
     page_num |-> 1, running |-> TRUE, raised |-> FALSE, fetched |-> << >>]

\* one iteration of "for page_num in range(1, page_limit + 1)": the page is
\* fetched, counted against the seen set, and the loop goes on or stops
ScrapePageStep(st, page_listings, seen, limit) ==
    LET nn == NoNewAfter(st.no_new_pages, NewCount(seen, page_listings)) IN
    [listings_data |-> st.listings_data \o page_listings,
     no_new_pages |-> nn,
     pages_scraped_local |-> st.pages_scraped_local + 1,
     page_num |-> st.page_num + 1,
     running |-> ~StopEarly(page_listings, nn) /\ st.page_num < limit,
     raised |-> FALSE,
     fetched |-> Append(st.fetched,
                        PageServed(build_page_url(ScrapeUrl, st.page_num)))]

\* the whole loop on a feed of pages (feed[n] is what page n returns)
RECURSIVE ScrapeLoop(_, _, _, _)
ScrapeLoop(st, feed, seen, limit) ==
    IF ~st.running \/ st.page_num > limit \/ st.page_num > Len(feed)
    THEN [st |-> st, seen |-> seen]
    ELSE ScrapeLoop(ScrapePageStep(st, feed[st.page_num], seen, limit), feed,
                    seen \cup ExtIdsOf(feed[st.page_num]), limit)

(***************************************************************************)
(* State                                                                   *)
(***************************************************************************)
\* the job configuration is read once at job start
VARIABLES
    concurrency,         \* after clamping
    tasks,               \* [(category, keyword)] in planning order
    proxy_pool,          \* _get_playwright_proxy_pool()
    page_limit,
    robots_txt,          \* the paths the site's robots rules disallow
    \* the job
    job_pc,              \* "single" | "multi" | "collected" | "raised"
    listings_by_id,      \* the merged map
    total_pages_scraped,
    seen_external_ids,   \* job-wide, guarded by seen_lock
    \* multi-worker mode
    task_queue,
    result_queue,
    workers,             \* worker_id -> the worker thread's local state
    workers_done,
    tasks_done,
    \* single-session mode
    single,              \* the local state of the attempt loop
    \* observations
    term_seen,           \* task idx -> terminal events the aggregator consumed
    failures,            \* open_page launches and releases that raised so far
    \* the page loop model
    scr,                 \* local state of one _scrape_task call
    page_log,            \* per page fetched: listings on it, new_count
    \* the merger model
    merge_base,          \* the map before the last two merges
    merge_args,          \* the (batch, keyword) pairs merged since merge_base
    scraper,             \* a KleinanzeigenScraper: its delay, the delays slept
    \* job submission and the progress feed
    submit,              \* one trigger_scraper request and its orchestration
    job_record,          \* the ScraperJob row
    published,           \* the snapshots handed to progress_manager, in order
    consumer,            \* one consumer of the progress feed
    clock,               \* seconds
    \* scrape_page
    nav,
    \* proxy assignment
    proxy_run,
    \* task planning
    plan,                \* the configured lists and the tasks planned from them
    \* the progress manager
    manager,             \* its current snapshot, its subscribers and their queues
    \* the robots gate
    gate                 \* one RobotsChecker and the answers it gave

vars == <<concurrency, tasks, proxy_pool, page_limit, robots_txt, job_pc,
          listings_by_id, total_pages_scraped, seen_external_ids, task_queue,
          result_queue, workers, workers_done, tasks_done, single, term_seen,
          failures, scr, page_log, merge_base, merge_args, scraper, submit,
          job_record, published, consumer, clock, nav, proxy_run, plan, manager, gate>>

configVars == <<concurrency, tasks, proxy_pool, page_limit, robots_txt>>
multiVars == <<task_queue, result_queue, workers, workers_done, tasks_done>>
obsVars == <<term_seen, failures>>
feedVars == <<submit, job_record, published, consumer, clock>>
partVars == <<feedVars, nav, proxy_run, plan, manager, gate>>
modelVars == <<scr, page_log, merge_base, merge_args, scraper, partVars>>

(***************************************************************************)
(* Job configuration                                                       *)
(***************************************************************************)
\* concurrency = max(1, min(concurrency, 4))
ClampConcurrency(raw) == Max(MinConcurrency, Min(raw, MaxConcurrency))

DefaultCategory == "c278"
CategoryCodes == <<"c278", "c225">>
KeywordSamples == <<"a", "b">>

\* the configured category lists: prefixes of CategoryCodes
CategoryLists == {SubSeq(CategoryCodes, 1, n) : n \in 0..Min(MaxCategories, Len(CategoryCodes))}
\* the configured keyword lists: prefixes of KeywordSamples
KeywordLists == {SubSeq(KeywordSamples, 1, n) : n \in 0..Len(KeywordSamples)}

\* tasks = [(category, keyword) for category in categories_list for keyword in keywords_list]
PlanTasks(categories, keywords) ==
    LET keywords_list == IF keywords = << >> THEN <<NoKeyword>> ELSE keywords
        categories_list == IF categories = << >> THEN <<DefaultCategory>> ELSE categories
        nk == Len(keywords_list)
    IN [i \in 1..(Len(categories_list) * nk) |->
           [category |-> categories_list[((i - 1) \div nk) + 1],
            keyword |-> keywords_list[((i - 1) % nk) + 1]]]

\* total_tasks = len(tasks) or 1
TotalTasks(ts) == IF Len(ts) = 0 THEN 1 ELSE Len(ts)

ProxyNames == <<"p1", "p2", "p3">>
ProxyPools == {SubSeq(ProxyNames, 1, n) : n \in 0..Min(MaxPool, Len(ProxyNames))}

\* faulty variant: every worker is given the head of the pool
ProxyHeadOfPool(pool, worker_id) ==
    IF pool = << >> THEN Direct ELSE pool[1]

\* _proxy_for_worker: None (Direct) when the pool is empty
proxy_for_worker(pool, worker_id) ==
    IF pool = << >> THEN Direct ELSE pool[(worker_id % Len(pool)) + 1]

\* proxy_attempts: the assigned proxy, the rest of the pool in pool order, direct
ProxyAttempts(pool, worker_id) ==
    LET assigned == proxy_for_worker(pool, worker_id) IN
    IF assigned = Direct THEN <<Direct>>
    ELSE <<assigned>> \o SelectSeq(pool, LAMBDA c : c # assigned) \o <<Direct>>

\* "if concurrency <= 1 or total_tasks <= 1": one reused session
SingleSessionMode(c, ts) == c <= 1 \/ TotalTasks(ts) <= 1

\* urlparse(_build_scrape_url(category, keyword)).path with no city set: one
\* path per category; the root search path is the default category's
TaskPath(task) == task.category
RootPath == DefaultCategory

\* RobotsChecker.fetch_robots: the paths the checker denies afterwards. A
\* fetch that fails leaves the rules unknown (_fetched = False), which denies
\* nothing; a fetch that succeeds parses the site's rules
FetchRobots == {{}, robots_txt}

\* faulty variant: no path is denied
AllowsEveryPath(denied, path) == TRUE

\* RobotsChecker.is_allowed
is_allowed(denied, path) == path \notin denied

(***************************************************************************)
(* _scrape_task as one step of a job                                       *)
(***************************************************************************)
\* what a results page can hold in the job model
JobPages == {<< >>} \cup {<<Listing(i, 1)>> : i \in 1..JobIds}
JobFeeds == [1..page_limit -> JobPages]

\* the results of one _scrape_task call: it is skipped by the robots rules
\* with ([], 0) before anything else is done, or it raises after n pages,
\* or it runs the page loop on some feed
ScrapeOutcomes(denied, task, seen) ==
    IF ~is_allowed(denied, TaskPath(task))
    THEN {[raised |-> FALSE, listings |-> << >>, pages |-> 0, seen |-> seen]}
    ELSE {[raised |-> TRUE, listings |-> << >>, pages |-> 0,
           seen |-> ScrapeLoop(ScrapeStart, feed, seen, n).seen] :
             n \in 0..(page_limit - 1), feed \in JobFeeds}
         \cup
         {LET r == ScrapeLoop(ScrapeStart, feed, seen, page_limit) IN
          [raised |-> FALSE, listings |-> r.st.listings_data,
           pages |-> r.st.pages_scraped_local, seen |-> r.seen] : feed \in JobFeeds}

(***************************************************************************)
(* The job's row and its progress snapshot, as the orchestration writes    *)
(* them                                                                    *)
(***************************************************************************)
\* the progress dict of a running job: keyword_index, listings_found
JobProgress(status, keyword_index, listings_found) ==
    [status |-> status, keyword_index |-> keyword_index,
     listings_found |-> listings_found, completed |-> FALSE]

\* the row when _run_scraper_job starts: trigger_scraper has committed it
\* with status running and saved the initial snapshot
\* the counts of a row before the job has written them
NoCounts ==
    [pages_scraped |-> 0, listings_found |-> 0, listings_new |-> 0,
     listings_updated |-> 0]

RunningRecord ==
    [status |-> "running", error_message |-> FALSE,
     progress_json |-> JobProgress("running", 0, 0), history |-> <<"running">>,
     counts |-> NoCounts]

\* _save_job_progress(job, progress): only the latest snapshot is kept
SnapshotSaved(row, progress) == [row EXCEPT !.progress_json = progress]

\* _save_job_progress(job, progress, completed=True)
TerminalSnapshotSaved(row, progress) ==
    [row EXCEPT !.progress_json = [progress EXCEPT !.completed = TRUE]]

\* the variables no step of a job writes
restVars == <<scr, page_log, merge_base, merge_args, scraper, submit, published,
              consumer, clock, nav, proxy_run, plan, manager, gate>>

(***************************************************************************)
(* Multi-worker mode: the worker threads                                   *)
(***************************************************************************)
\* faulty variant: the worker merges its batch into the job's map itself
MapMergedByWorker(m, keyword, task_listings) ==
    merge_task_results(m, keyword, task_listings)

\* the job's map after a worker scraped a task: the batch travels in the
\* task_completed event, the worker does not call _merge_task_results
MapAfterWorkerScrape(m, keyword, task_listings) == m

WorkerIds == 0..(concurrency - 1)

Event(kind, idx, worker_id, listings, pages) ==
    [event |-> kind, idx |-> idx, worker_id |-> worker_id,
     listings |-> listings, pages_scraped |-> pages]

\* faulty variant: a launch leaves a second browser behind
SessionsOpenedTwice(n) == n + 2

\* open_page: the sessions a thread holds after its launch succeeded ...
SessionsAfterOpen(n) == n + 1
\* faulty variant: leaving the with block keeps the session
SessionsKept(n) == n

\* ... and after it left the with block: "finally: browser.close()" and the
\* exit of sync_playwright() end the session whether or not close() raised
SessionsAfterExit(n) == n - 1

\* session: browsing sessions the thread holds; opened: it has held one;
\* sentinels: the termination sentinels it has taken from task_queue;
\* emitted: the external ids of the batches it has put as task_completed
WorkerStart ==
    [pc |-> "attempt", attempt |-> 1, task |-> 0, session |-> 0,
     opened |-> FALSE, denied |-> {}, last_error |-> FALSE, sentinels |-> 0,
     emitted |-> {}, pages_emitted |-> 0]

\* "except Exception as e" of the attempt loop: last_error = e, the
\* worker_proxy_failed event, then the next attempt or the end of the loop
AttemptFailed(w, st, sessions) ==
    /\ failures < MaxFailures
    /\ failures' = failures + 1
    /\ result_queue' = Append(result_queue, Event("worker_proxy_failed", 0, w, << >>, 0))
    /\ workers' = [workers EXCEPT ![w] =
          [st EXCEPT !.last_error = TRUE, !.session = sessions, !.denied = {},
                     !.pc = IF st.attempt < Len(ProxyAttempts(proxy_pool, w))
                            THEN "attempt" ELSE "finish",
                     !.attempt = IF st.attempt < Len(ProxyAttempts(proxy_pool, w))
                                 THEN st.attempt + 1 ELSE st.attempt]]

\* "with worker_scraper.open_page() as page" and fetch_robots: the session
\* opens and the robots rules are fetched (or stay unknown), or the launch fails
WorkerOpen(w) ==
    /\ job_pc = "multi"
    /\ workers[w].pc = "attempt"
    /\ \/ /\ \E d \in FetchRobots :
                workers' = [workers EXCEPT ![w] =
                    [@ EXCEPT !.session = SessionsAfterOpen(@), !.opened = TRUE,
                              !.denied = d, !.pc = "get"]]
          /\ UNCHANGED <<result_queue, failures>>
       \/ AttemptFailed(w, workers[w], workers[w].session)
    /\ UNCHANGED <<configVars, job_pc, listings_by_id, total_pages_scraped,
                   seen_external_ids, task_queue, workers_done, tasks_done,
                   single, term_seen, modelVars>>

\* task = task_queue.get(): blocks while the queue is empty; the sentinel
\* ends the loop, a task is announced with task_started
WorkerGet(w) ==
    /\ job_pc = "multi"
    /\ workers[w].pc = "get"
    /\ task_queue # << >>
    /\ task_queue' = Tail(task_queue)
    /\ IF Head(task_queue) = Sentinel
       THEN /\ workers' = [workers EXCEPT ![w] =
                  [@ EXCEPT !.pc = "close", !.sentinels = @ + 1]]
            /\ UNCHANGED result_queue
       ELSE /\ workers' = [workers EXCEPT ![w] =
                  [@ EXCEPT !.pc = "scrape", !.task = Head(task_queue)]]
            /\ result_queue' = Append(result_queue,
                  Event("task_started", Head(task_queue), w, << >>, 0))
    /\ UNCHANGED <<configVars, job_pc, listings_by_id, total_pages_scraped,
                   seen_external_ids, workers_done, tasks_done, single,
                   obsVars, modelVars>>

\* _scrape_task for the task in hand, then task_completed or task_error
WorkerScrape(w) ==
    /\ job_pc = "multi"
    /\ workers[w].pc = "scrape"
    /\ \E r \in ScrapeOutcomes(workers[w].denied, tasks[workers[w].task],
                               seen_external_ids) :
          /\ seen_external_ids' = r.seen
          /\ result_queue' = Append(result_queue,
                IF r.raised
                THEN Event("task_error", workers[w].task, w, << >>, 0)
                ELSE Event("task_completed", workers[w].task, w, r.listings, r.pages))
          /\ listings_by_id' = MapAfterWorkerScrape(listings_by_id,
                                    tasks[workers[w].task].keyword, r.listings)
          /\ workers' = [workers EXCEPT ![w] =
                [@ EXCEPT !.pc = "get", !.task = 0,
                          !.emitted = IF r.raised THEN @
                                      ELSE @ \cup ExtIdsOf(r.listings),
                          !.pages_emitted = IF r.raised THEN @ ELSE @ + r.pages]]
    /\ UNCHANGED <<configVars, job_pc, total_pages_scraped,
                   task_queue, workers_done, tasks_done, single, obsVars,
                   modelVars>>

\* leaving the with block after the sentinel: the session is released;
\* browser.close() may raise, which the attempt loop takes for a failed attempt
WorkerClose(w) ==
    /\ job_pc = "multi"
    /\ workers[w].pc = "close"
    /\ \/ /\ workers' = [workers EXCEPT ![w] =
                [@ EXCEPT !.session = SessionsAfterExit(@), !.denied = {},
                          !.last_error = FALSE, !.pc = "finish"]]
          /\ UNCHANGED <<result_queue, failures>>
       \/ AttemptFailed(w, workers[w], SessionsAfterExit(workers[w].session))
    /\ UNCHANGED <<configVars, job_pc, listings_by_id, total_pages_scraped,
                   seen_external_ids, task_queue, workers_done, tasks_done,
                   single, term_seen, modelVars>>

\* after the attempt loop: "if last_error is not None" the worker_error
\* event, then in "finally" the worker_done event; the thread ends
WorkerFinish(w) ==
    /\ job_pc = "multi"
    /\ workers[w].pc = "finish"
    /\ result_queue' = result_queue
          \o (IF workers[w].last_error
              THEN <<Event("worker_error", 0, w, << >>, 0)>> ELSE << >>)
          \o <<Event("worker_done", 0, w, << >>, 0)>>
    /\ workers' = [workers EXCEPT ![w] = [@ EXCEPT !.pc = "done"]]
    /\ UNCHANGED <<configVars, job_pc, listings_by_id, total_pages_scraped,
                   seen_external_ids, task_queue, workers_done, tasks_done,
                   single, obsVars, modelVars>>

(***************************************************************************)
(* Multi-worker mode: the aggregator loop                                  *)
(***************************************************************************)
\* faulty variant: the loop counts the tasks that ended
WorkersDoneCountingTasks(done, event) ==
    IF event \in {"task_error", "task_completed"} THEN done + 1 ELSE done

\* "if event == 'worker_done': workers_done += 1"
WorkersDoneAfter(done, event) ==
    IF event = "worker_done" THEN done + 1 ELSE done

\* faulty variant: the loop ends with the first worker_done
LoopUntilFirstDone(done, c) == done < 1

\* "while workers_done < concurrency"
LoopGoesOn(done, c) == done < c

\* one turn of "while workers_done < concurrency: msg = result_queue.get()"
Aggregate ==
    /\ job_pc = "multi"
    /\ LoopGoesOn(workers_done, concurrency)
    /\ result_queue # << >>
    /\ LET msg == Head(result_queue) IN
       /\ result_queue' = Tail(result_queue)
       /\ workers_done' = WorkersDoneAfter(workers_done, msg.event)
       /\ tasks_done' = IF msg.event \in {"task_error", "task_completed"}
                        THEN tasks_done + 1 ELSE tasks_done
       /\ term_seen' = IF msg.event \in {"task_error", "task_completed"}
                       THEN [term_seen EXCEPT ![msg.idx] = @ + 1] ELSE term_seen
       /\ total_pages_scraped' = IF msg.event = "task_completed"
                                 THEN total_pages_scraped + msg.pages_scraped
                                 ELSE total_pages_scraped
       /\ listings_by_id' = IF msg.event = "task_completed"
                            THEN merge_task_results(listings_by_id,
                                     tasks[msg.idx].keyword, msg.listings)
                            ELSE listings_by_id
       \* task_started, task_error and task_completed save a snapshot
       /\ job_record' = IF msg.event \in {"task_started", "task_error", "task_completed"}
                        THEN SnapshotSaved(job_record,
                                 JobProgress("running", tasks_done',
                                             Cardinality(DOMAIN listings_by_id')))
                        ELSE job_record
    /\ UNCHANGED <<configVars, job_pc, seen_external_ids, task_queue, workers,
                   single, failures, restVars>>

\* the loop ends once workers_done reaches concurrency
AggregateExit ==
    /\ job_pc = "multi"
    /\ ~LoopGoesOn(workers_done, concurrency)
    /\ job_pc' = "collected"
    /\ UNCHANGED <<configVars, listings_by_id, total_pages_scraped,
                   seen_external_ids, multiVars, single, obsVars, modelVars>>

(***************************************************************************)
(* Single-session mode                                                     *)
(***************************************************************************)
\* denied: what the job's one RobotsChecker denies (it outlives the attempts);
\* tried: the attempt_proxy of every attempt begun, opens: the attempts
\* whose session opened
SingleStart ==
    [pc |-> "attempt", attempt |-> 1, idx |-> 1, session |-> 0,
     denied |-> {}, last_open_error |-> FALSE, tried |-> << >>, opens |-> 0,
     task_pages |-> << >>]

\* "except Exception as e": last_open_error = e, then the next attempt. An
\* attempt fails at most once, so the failures of a single-session job are
\* bounded by its attempts as well
SingleAttemptFailed(st, sessions) ==
    /\ failures < Max(MaxFailures, Len(ProxyAttempts(proxy_pool, 0)))
    /\ failures' = failures + 1
    /\ single' = [st EXCEPT !.last_open_error = TRUE, !.session = sessions,
                     !.pc = IF st.attempt < Len(ProxyAttempts(proxy_pool, 0))
                            THEN "attempt" ELSE "end",
                     !.attempt = IF st.attempt < Len(ProxyAttempts(proxy_pool, 0))
                                 THEN st.attempt + 1 ELSE st.attempt]

\* "with scraper.open_page() as page" and fetch_robots; the task loop of the
\* attempt starts at the first task
SingleOpen ==
    /\ job_pc = "single"
    /\ single.pc = "attempt"
    /\ LET attempt_proxy == ProxyAttempts(proxy_pool, 0)[single.attempt]
           st == [single EXCEPT !.tried = Append(@, attempt_proxy)]
       IN \/ /\ \E d \in FetchRobots :
                   single' = [st EXCEPT !.session = SessionsAfterOpen(@),
                                        !.opens = @ + 1,
                                        !.denied = d, !.idx = 1, !.pc = "task"]
             /\ UNCHANGED failures
          \/ SingleAttemptFailed(st, single.session)
    /\ UNCHANGED <<configVars, job_pc, listings_by_id, total_pages_scraped,
                   seen_external_ids, multiVars, term_seen, modelVars>>

\* one iteration of "for idx, (category, keyword) in enumerate(tasks)": the
\* snapshot is saved, the task is scraped and merged; a task that raises is
\* logged and skipped
SingleTask ==
    /\ job_pc = "single"
    /\ single.pc = "task"
    /\ job_record' = SnapshotSaved(job_record,
                         JobProgress("running", single.idx - 1,
                                     Cardinality(DOMAIN listings_by_id)))
    /\ \E r \in ScrapeOutcomes(single.denied, tasks[single.idx], seen_external_ids) :
          /\ seen_external_ids' = r.seen
          /\ total_pages_scraped' = IF r.raised THEN total_pages_scraped
                                    ELSE total_pages_scraped + r.pages
          /\ listings_by_id' = IF r.raised THEN listings_by_id
                               ELSE merge_task_results(listings_by_id,
                                        tasks[single.idx].keyword, r.listings)
          /\ term_seen' = [term_seen EXCEPT ![single.idx] = @ + 1]
          /\ single' = [single EXCEPT !.idx = @ + 1,
                !.pc = IF single.idx < Len(tasks) THEN "task" ELSE "close",
                !.task_pages = IF r.raised THEN @
                               ELSE [i \in DOMAIN single.task_pages \cup {single.idx} |->
                                        IF i = single.idx THEN r.pages
                                        ELSE single.task_pages[i]]]
    /\ UNCHANGED <<configVars, job_pc, multiVars, failures, restVars>>

\* leaving the with block: the session is released; "last_open_error = None;
\* break" unless browser.close() raised
SingleClose ==
    /\ job_pc = "single"
    /\ single.pc = "close"
    /\ \/ /\ single' = [single EXCEPT !.session = SessionsAfterExit(@),
                                         !.last_open_error = FALSE, !.pc = "end"]
          /\ UNCHANGED failures
       \/ SingleAttemptFailed(single, SessionsAfterExit(single.session))
    /\ UNCHANGED <<configVars, job_pc, listings_by_id, total_pages_scraped,
                   seen_external_ids, multiVars, term_seen, modelVars>>

\* "if last_open_error is not None: raise last_open_error"
SingleEnd ==
    /\ job_pc = "single"
    /\ single.pc = "end"
    /\ job_pc' = IF single.last_open_error THEN "raised" ELSE "collected"
    /\ UNCHANGED <<configVars, listings_by_id, total_pages_scraped,
                   seen_external_ids, multiVars, single, obsVars, modelVars>>

(***************************************************************************)
(* Finalization                                                            *)
(***************************************************************************)
\* the loop over listings_by_id.items(): a listing whose external_id is in
\* the Listing table is updated, any other is inserted
RECURSIVE PersistListings(_, _, _)
PersistListings(ids, existing, counted) ==
    IF ids = {} THEN counted
    ELSE LET ext_id == CHOOSE id \in ids : TRUE
         IN PersistListings(ids \ {ext_id}, existing,
                IF ext_id \in existing
                THEN [counted EXCEPT !.updated_count = @ + 1]
                ELSE [counted EXCEPT !.new_count = @ + 1])

\* the terminal snapshot of a completed job
CompletedProgress(total_tasks, listings_found, new_count, updated_count) ==
    [status |-> "completed", keyword_index |-> total_tasks,
     listings_found |-> listings_found, completed |-> FALSE,
     new_count |-> new_count, updated_count |-> updated_count]

\* the external ids the Listing table may hold when the job persists
ListingTables == SUBSET (1..JobIds)

\* the collected map is persisted and the row is updated: job.status =
\* 'completed', job.pages_scraped = total_pages_scraped, job.listings_found =
\* len(listings_by_id), whatever the map holds, job.listings_new and
\* job.listings_updated the counts of the persistence loop; then the
\* terminal snapshot is saved
Finalize ==
    /\ job_pc = "collected"
    /\ job_pc' = "completed"
    /\ \E existing \in ListingTables :
          LET counted == PersistListings(DOMAIN listings_by_id, existing,
                                         [new_count |-> 0, updated_count |-> 0])
          IN job_record' = TerminalSnapshotSaved(
                 [job_record EXCEPT
                     !.status = "completed",
                     !.history = Append(@, "completed"),
                     !.counts = [pages_scraped |-> total_pages_scraped,
                                 listings_found |-> Cardinality(DOMAIN listings_by_id),
                                 listings_new |-> counted.new_count,
                                 listings_updated |-> counted.updated_count]],
                 CompletedProgress(TotalTasks(tasks),
                                   Cardinality(DOMAIN listings_by_id),
                                   counted.new_count, counted.updated_count))
    /\ UNCHANGED <<configVars, listings_by_id, total_pages_scraped,
                   seen_external_ids, multiVars, single, obsVars, restVars>>

(***************************************************************************)
(* One job                                                                 *)
(***************************************************************************)
\* faulty variant: the sentinels are queued before the tasks
SentinelsFirstQueue(ts, c) ==
    [i \in 1..(Len(ts) + c) |-> IF i <= c THEN Sentinel ELSE i - c]

\* the task queue as preloaded: every task index, then one sentinel per worker
PreloadedQueue(ts, c) ==
    [i \in 1..(Len(ts) + c) |-> IF i <= Len(ts) THEN i ELSE Sentinel]

\* the concurrency override or SCRAPER_CONCURRENCY, before clamping
RawConcurrency == (MinConcurrency - 1)..(MaxConcurrency + 1)

\* the site's robots rules: nothing disallowed, or the root search path
RobotsRules == {{}, {RootPath}}

\* the jobs the model runs
RunsJob(c, ts) ==
    SingleSessionMode(c, ts) \/ (c <= MaxWorkers /\ Len(ts) <= MaxMultiTasks)

(***************************************************************************)
(* The scraper instance, and the parts of the system at rest               *)
(***************************************************************************)
\* faulty variant: the configured delay is taken as it is
DelayAsConfigured(delay_seconds) == delay_seconds

\* self.delay_seconds = max(delay_seconds, 2.0)
DelaySeconds(delay_seconds) == Max(delay_seconds, MinDelay)

\* KleinanzeigenScraper(delay_seconds = ...); slept: the polite delays the
\* page loop has slept with this instance
NewScraper(delay_seconds) ==
    [configured |-> delay_seconds, delay_seconds |-> DelaySeconds(delay_seconds),
     slept |-> << >>]

\* no snapshot persisted (progress_json is NULL)
NoSnapshot == [status |-> "none", stamp |-> 0, completed |-> FALSE, error |-> FALSE]

\* no ScraperJob row yet
NoRecord ==
    [status |-> "none", error_message |-> FALSE, progress_json |-> NoSnapshot,
     history |-> << >>, counts |-> NoCounts]

NoSubmit == [pc |-> "none"]
NoConsumer == [pc |-> "none"]
NoNav == [pc |-> "none"]
NoProxyRun == [pc |-> "none"]
NoPlan == [pc |-> "none"]
NoManager == [pc |-> "none"]
NoGate == [pc |-> "none"]

\* no request, no consumer: the feed is at rest
FeedIdle ==
    /\ submit = NoSubmit
    /\ job_record = NoRecord
    /\ published = << >>
    /\ consumer = NoConsumer
    /\ clock = 0

Init ==
    /\ \E raw \in RawConcurrency : concurrency = ClampConcurrency(raw)
    /\ \E cats \in CategoryLists, kws \in KeywordLists : tasks = PlanTasks(cats, kws)
    /\ RunsJob(concurrency, tasks)
    /\ proxy_pool \in ProxyPools
    /\ page_limit = JobPageLimit
    /\ robots_txt \in RobotsRules
    /\ job_pc = IF SingleSessionMode(concurrency, tasks) THEN "single" ELSE "multi"
    /\ listings_by_id = EmptyMap
    /\ total_pages_scraped = 0
    /\ seen_external_ids = {}
    /\ task_queue = IF SingleSessionMode(concurrency, tasks) THEN << >>
                    ELSE PreloadedQueue(tasks, concurrency)
    /\ result_queue = << >>
    /\ workers = IF SingleSessionMode(concurrency, tasks) THEN << >>
                 ELSE [w \in WorkerIds |-> WorkerStart]
    /\ workers_done = 0
    /\ tasks_done = 0
    /\ single = SingleStart
    /\ term_seen = [i \in 1..Len(tasks) |-> 0]
    /\ failures = 0
    /\ scr = ScrapeStart
    /\ page_log = << >>
    /\ merge_base = EmptyMap
    /\ merge_args = << >>
    /\ scraper = NewScraper(DefaultDelay)
    /\ submit = NoSubmit
    /\ job_record = RunningRecord
    /\ published = << >>
    /\ consumer = NoConsumer
    /\ clock = 0
    /\ nav = NoNav
    /\ proxy_run = NoProxyRun
    /\ plan = NoPlan
    /\ manager = NoManager
    /\ gate = NoGate

\* the worker threads the model can start
WorkerSlots == 0..(MaxWorkers - 1)

Started(w) == w \in DOMAIN workers

Next ==
    \/ \E w \in WorkerSlots : Started(w) /\ WorkerOpen(w)
    \/ \E w \in WorkerSlots : Started(w) /\ WorkerGet(w)
    \/ \E w \in WorkerSlots : Started(w) /\ WorkerScrape(w)
    \/ \E w \in WorkerSlots : Started(w) /\ WorkerClose(w)
    \/ \E w \in WorkerSlots : Started(w) /\ WorkerFinish(w)
    \/ Aggregate
    \/ AggregateExit
    \/ SingleOpen
    \/ SingleTask
    \/ SingleClose
    \/ SingleEnd
    \/ Finalize

Spec == Init /\ [][Next]_vars

(***************************************************************************)
(* Properties of a job                                                     *)
(***************************************************************************)
MultiWorkerMode == ~SingleSessionMode(concurrency, tasks)

RECURSIVE SumSessions(_)
SumSessions(ws) ==
    IF ws = {} THEN 0
    ELSE LET w == CHOOSE x \in ws : TRUE
         IN workers[w].session + SumSessions(ws \ {w})

\* browsing sessions open in the whole job
OpenSessions == single.session + SumSessions(DOMAIN workers)

\* no thread of the job can take a step: the job has ended or hangs. Every
\* run of a job is finite (every step consumes a queue entry, a task, an
\* attempt or a thread), so what a job eventually does is what it has done
\* when it has come to rest
AtRest == ~ENABLED Next

AllTasks == DOMAIN term_seen

\* C1: the concurrency is clamped to [1,4]; in multi-worker mode at most
\* concurrency sessions are open at any time, proxy fallbacks included, and
\* in single-session mode at most one
C1_SessionBound ==
    /\ concurrency \in MinConcurrency..MaxConcurrency
    /\ OpenSessions <= (IF MultiWorkerMode THEN concurrency ELSE 1)

\* every worker holds a session, one of them on a fallback attempt
C1_Witness ==
    /\ job_pc = "multi"
    /\ OpenSessions = concurrency
    /\ concurrency >= 2
    /\ \E w \in DOMAIN workers : workers[w].attempt > 1 /\ workers[w].session = 1

\* C2 as claimed: in every multi-worker job the aggregator observes exactly
\* one terminal event for every task: never two, and one by the time the job
\* has come to rest
C2_EveryTaskOneTerminalEvent ==
    MultiWorkerMode =>
        /\ \A t \in AllTasks : term_seen[t] <= 1
        /\ AtRest => \A t \in AllTasks : term_seen[t] = 1

\* C2 as amended: no task gets two terminal events, and if at least one
\* worker opened a session every task has got one when the job is at rest
C2_OneTerminalEventIfSomeWorkerOpened ==
    MultiWorkerMode =>
        /\ \A t \in AllTasks : term_seen[t] <= 1
        /\ (AtRest /\ \E w \in DOMAIN workers : workers[w].opened)
              => \A t \in AllTasks : term_seen[t] = 1

\* a job at rest in which one worker never opened a session and the other
\* worker handled every task, one of them with a task_error
C2_Witness ==
    /\ MultiWorkerMode
    /\ AtRest
    /\ \E w \in DOMAIN workers : workers[w].opened
    /\ \E w \in DOMAIN workers : ~workers[w].opened
    /\ \A t \in AllTasks : term_seen[t] = 1
    /\ total_pages_scraped < Len(tasks)

\* C3: the aggregator loop always terminates (a multi-worker job never comes
\* to rest inside the loop), and it has ended only when every worker has
\* emitted its worker_done and the aggregator has counted it
C3_AggregatorTerminates ==
    /\ job_pc = "multi" => ENABLED Next
    /\ (MultiWorkerMode /\ job_pc = "collected") =>
          /\ workers_done = concurrency
          /\ \A w \in DOMAIN workers : workers[w].pc = "done"

\* worker w has ended after failing on its last attempt: it has emitted
\* worker_error and worker_done
WorkerFailed(w) == workers[w].pc = "done" /\ workers[w].last_error

\* C4: a worker that failed on all its attempts does not block the others:
\* if another worker opened a session the job does not hang in the
\* aggregator loop and every task is handled by the time the job is at rest
C4_FailedWorkerBlocksNobody ==
    \A w \in DOMAIN workers :
        (WorkerFailed(w) /\ \E v \in DOMAIN workers : v # w /\ workers[v].opened)
        => /\ job_pc = "multi" => ENABLED Next
           /\ AtRest => \A t \in AllTasks : term_seen[t] = 1

\* C35: a worker takes at most one termination sentinel from task_queue.
\* The sentinels follow the tasks in the queue, so whatever a worker takes
\* after its first sentinel is another sentinel
C35_WorkerTakesOneSentinel ==
    \A w \in DOMAIN workers : workers[w].sentinels <= 1

\* C36: in single-session mode no task is run more than once in a job,
\* whatever attempts fail
C36_SingleSessionTaskRunsOnce ==
    SingleSessionMode(concurrency, tasks) =>
        \A t \in DOMAIN term_seen : term_seen[t] <= 1

\* the events of kind in result_queue
QueuedEvents(kind) ==
    {k \in 1..Len(result_queue) : result_queue[k].event = kind}

\* C37: worker_done is the last event a worker puts, and once the aggregator
\* loop of a multi-worker job has ended no task_completed event is left in
\* result_queue and the keys of the merged map are the external ids of all
\* the batches the workers have put
C37_NoBatchLost ==
    /\ \A k \in QueuedEvents("worker_done") :
          /\ workers[result_queue[k].worker_id].pc = "done"
          /\ \A j \in (k + 1)..Len(result_queue) :
                result_queue[j].worker_id # result_queue[k].worker_id
    /\ (MultiWorkerMode /\ job_pc \in {"collected", "completed"}) =>
          /\ QueuedEvents("task_completed") = {}
          /\ DOMAIN listings_by_id
                 = UNION {workers[w].emitted : w \in DOMAIN workers}

\* the loop has ended after two workers put one batch each, with different
\* listings, and both are in the map
C37_Witness ==
    /\ MultiWorkerMode /\ job_pc = "collected"
    /\ \A w \in DOMAIN workers : Cardinality(workers[w].emitted) = 1
    /\ Cardinality(DOMAIN listings_by_id) = 2

\* the sum of f over the keys S
RECURSIVE SumPages(_, _)
SumPages(f, S) ==
    IF S = {} THEN 0
    ELSE LET x == CHOOSE y \in S : TRUE IN f[x] + SumPages(f, S \ {x})

\* pagesScraped summed over the completed tasks: the tasks the single
\* session completed, and the task_completed events the workers emitted
PagesOfCompletedTasks ==
    SumPages(single.task_pages, DOMAIN single.task_pages)
        + SumPages([w \in DOMAIN workers |-> workers[w].pages_emitted],
                   DOMAIN workers)

\* C39: the counts of a completed job are consistent: listings_new +
\* listings_updated = listings_found = the size of the merged map,
\* pages_scraped is the sum of pagesScraped over the completed tasks, and
\* new_count and updated_count of the terminal snapshot are listings_new and
\* listings_updated of the row
C39_CompletedCountsConsistent ==
    job_pc = "completed" =>
        /\ job_record.counts.listings_new + job_record.counts.listings_updated
               = job_record.counts.listings_found
        /\ job_record.counts.listings_found = Cardinality(DOMAIN listings_by_id)
        /\ job_record.counts.pages_scraped = PagesOfCompletedTasks
        /\ job_record.progress_json.new_count = job_record.counts.listings_new
        /\ job_record.progress_json.updated_count
               = job_record.counts.listings_updated

\* C7: across every step of a job the merged map keeps every external id it
\* has, and every keyword of every entry
C7_MergedMapGrows ==
    [][/\ DOMAIN listings_by_id \subseteq DOMAIN listings_by_id'
       /\ \A id \in DOMAIN listings_by_id :
             listings_by_id[id].keywords \subseteq listings_by_id'[id].keywords]_vars

\* two entries, one of them found by two tasks with different keywords
C7_Witness ==
    /\ Cardinality(DOMAIN listings_by_id) = 2
    /\ \E id \in DOMAIN listings_by_id : Cardinality(listings_by_id[id].keywords) = 2

\* C8: when the robots rules the job fetched disallow the root search
\* path, the job does not end normally, fetches no page and has no listing
C8_RootDenialRaises ==
    RootPath \in single.denied =>
        /\ job_pc # "collected"
        /\ total_pages_scraped = 0
        /\ listings_by_id = EmptyMap

\* job.listings_found
ListingsFound == Cardinality(DOMAIN listings_by_id)

\* C23: a multi-worker job whose workers have all ended in failure after
\* their last attempt does not raise and does not hang in the aggregator
\* loop: it ends with the status completed; and if no worker ever opened a
\* session, no task has got a terminal event, no page was scraped and the
\* job completes with zero listings. A single-session job that opened no
\* session raises instead
C23_AllWorkersFailedCompletesEmpty ==
    /\ (MultiWorkerMode /\ \A w \in DOMAIN workers : WorkerFailed(w)) =>
          /\ job_pc # "raised"
          /\ job_pc = "multi" => ENABLED Next
          /\ AtRest => job_pc = "completed" /\ job_record.status = "completed"
          /\ (\A w \in DOMAIN workers : ~workers[w].opened) =>
                /\ \A t \in AllTasks : term_seen[t] = 0
                /\ total_pages_scraped = 0
                /\ ListingsFound = 0
                /\ AtRest => job_record.progress_json.listings_found = 0
    /\ (~MultiWorkerMode /\ AtRest /\ single.opens = 0) => job_pc = "raised"

\* two workers, no proxy: the direct launch failed for both, and the job
\* is completed with two tasks untouched
C23_Witness ==
    /\ MultiWorkerMode
    /\ job_pc = "completed"
    /\ job_record.history = <<"running", "completed">>
    /\ job_record.progress_json.completed
    /\ Len(tasks) = 2
    /\ \A w \in DOMAIN workers : WorkerFailed(w) /\ ~workers[w].opened
    /\ \A t \in AllTasks : term_seen[t] = 0
    /\ ListingsFound = 0
    /\ workers_done = concurrency

\* C26: a thread holds at most one session and holds none outside the with
\* block of an attempt: none when it begins an attempt (the session of the
\* attempt before, failed or not, is released), none after its attempt
\* loop, so none when it has put worker_done, and none is open in the
\* whole job once the job has left its scheduler
C26_SessionsReleased ==
    /\ \A w \in DOMAIN workers :
          /\ workers[w].session \in {0, 1}
          /\ workers[w].pc \in {"attempt", "finish", "done"} => workers[w].session = 0
          /\ workers[w].pc \in {"get", "scrape", "close"} => workers[w].session = 1
    /\ single.session \in {0, 1}
    /\ single.pc \in {"attempt", "end"} => single.session = 0
    /\ job_pc \in {"collected", "completed", "raised"} => OpenSessions = 0

\* a completed multi-worker job: a worker lost its first session by a
\* failure, opened a second one, handled a task that raised, and is done
C26_Witness ==
    /\ MultiWorkerMode
    /\ job_pc = "completed"
    /\ OpenSessions = 0
    /\ failures >= 1
    /\ \E w \in DOMAIN workers :
          workers[w].pc = "done" /\ workers[w].opened /\ workers[w].attempt > 1
    /\ total_pages_scraped < Len(tasks)
    /\ \A t \in AllTasks : term_seen[t] = 1

\* C25: the persisted snapshot, the row and the merged map (and the counts
\* kept with it) are written by one thread only. In multi-worker mode a
\* step that writes any of them is a turn of the aggregator loop or the
\* finalization: it consumes one event, or the loop has ended, and no
\* worker thread moves in it; a step in which a worker moves changes
\* nothing but that worker, the task queue, the event queue and the seen-id
\* set. In single-session mode there is no other thread than the task loop
C25_SnapshotAndMapHaveOneWriter ==
    [][/\ (job_pc = "multi" /\ <<job_record, listings_by_id, total_pages_scraped,
                                  tasks_done, workers_done>>'
                                # <<job_record, listings_by_id, total_pages_scraped,
                                    tasks_done, workers_done>>)
          => /\ workers' = workers
             /\ task_queue' = task_queue
             /\ seen_external_ids' = seen_external_ids
             /\ result_queue # << >> /\ result_queue' = Tail(result_queue)
       /\ (job_pc \in {"collected", "completed"} /\ job_record' # job_record)
          => /\ workers' = workers
             /\ MultiWorkerMode => workers_done >= concurrency
       /\ \A w \in DOMAIN workers :
             workers'[w] # workers[w]
             => /\ job_record' = job_record
                /\ listings_by_id' = listings_by_id
                /\ total_pages_scraped' = total_pages_scraped
                /\ tasks_done' = tasks_done /\ workers_done' = workers_done
                /\ \A v \in DOMAIN workers \ {w} : workers'[v] = workers[v]
       /\ job_pc = "single" => workers = << >> /\ workers' = << >>]_vars

\* the aggregator has merged the batches of two tasks and saved the
\* snapshot of the second while a worker still holds its session
C25_Witness ==
    /\ job_pc = "multi"
    /\ job_record.progress_json = JobProgress("running", 2, 2)
    /\ ListingsFound = 2
    /\ \E w \in DOMAIN workers : workers[w].session = 1 /\ workers[w].pc \in {"get", "close"}

\* C22: a task whose search path the robots rules of its session disallow
\* is scraped as ([], 0) with no page fetched (the seen-id set is as
\* before): in multi-worker mode the worker reports it as task_completed
\* with no listing and pages_scraped = 0 and goes on to take the next
\* queue entry; in single-session mode the task counts as finished, adds
\* nothing to the pages and the map, and the loop goes on with the next
\* task; the job does not raise
C22_DeniedTaskIsSkipped ==
    [][/\ \A w \in DOMAIN workers :
             (/\ workers[w].pc = "scrape"
              /\ workers'[w].pc # "scrape"
              /\ TaskPath(tasks[workers[w].task]) \in workers[w].denied)
             => /\ result_queue' = Append(result_queue,
                      Event("task_completed", workers[w].task, w, << >>, 0))
                /\ seen_external_ids' = seen_external_ids
                /\ workers'[w].pc = "get"
                /\ job_pc' = "multi"
       /\ (/\ job_pc = "single"
           /\ single.pc = "task"
           /\ single' # single
           /\ TaskPath(tasks[single.idx]) \in single.denied)
          => /\ total_pages_scraped' = total_pages_scraped
             /\ listings_by_id' = listings_by_id
             /\ seen_external_ids' = seen_external_ids
             /\ term_seen' = [term_seen EXCEPT ![single.idx] = @ + 1]
             /\ single'.pc = (IF single.idx < Len(tasks) THEN "task" ELSE "close")
             /\ job_pc' = "single"]_vars

\* two workers under robots rules that disallow the search path: worker 0
\* fetched the rules and skipped its task, worker 1 did not get the rules
\* and scraped a page of its task
C22_Witness ==
    /\ job_pc = "multi"
    /\ robots_txt = {RootPath}
    /\ workers[0].denied = {RootPath}
    /\ workers[1].denied = {}
    /\ \E i, j \in DOMAIN result_queue :
          /\ result_queue[i] = Event("task_completed", result_queue[i].idx, 0, << >>, 0)
          /\ result_queue[j].event = "task_completed"
          /\ result_queue[j].worker_id = 1
          /\ result_queue[j].pages_scraped = 1
    /\ workers[0].pc = "get"

(***************************************************************************)
(* The page loop of one _scrape_task call, page by page                    *)
(***************************************************************************)
\* the job variables, at rest while the page loop or the merger is studied
NoJob ==
    /\ concurrency = MinConcurrency
    /\ tasks = << >>
    /\ proxy_pool = << >>
    /\ robots_txt = {}
    /\ job_pc = "none"
    /\ total_pages_scraped = 0
    /\ task_queue = << >>
    /\ result_queue = << >>
    /\ workers = << >>
    /\ workers_done = 0
    /\ tasks_done = 0
    /\ single = SingleStart
    /\ term_seen = << >>
    /\ failures = 0

jobVars == <<configVars, job_pc, total_pages_scraped, multiVars, single, obsVars,
            partVars>>

\* results page k of a search, full: PageSize listings with ids of their own
FullPage(k) == [i \in 1..PageSize |-> Listing((k - 1) * PageSize + i, 1)]

\* what scraper.scrape_page may return: no listing, a full page, a page
\* with one listing, a page whose listing has no external_id
ScrapePages ==
    {<< >>, FullPage(1), FullPage(2), <<Listing(2 * PageSize + 1, 1)>>,
     <<Listing(NoId, 1)>>}

\* SCRAPER_DELAY_SECONDS as configured: 0 s, 1.9 s, 2.0 s, 2.1 s, 5.0 s
ConfiguredDelays == {0, MinDelay - 1, MinDelay, MinDelay + 1, 50}

ScrapeInit ==
    /\ NoJob
    /\ FeedIdle
    /\ nav = NoNav
    /\ proxy_run = NoProxyRun
    /\ plan = NoPlan
    /\ manager = NoManager
    /\ gate = NoGate
    /\ \E d \in ConfiguredDelays : scraper = NewScraper(d)
    /\ page_limit \in 1..MaxPageLimit
    /\ seen_external_ids = {}
    /\ listings_by_id = EmptyMap
    /\ scr = ScrapeStart
    /\ page_log = << >>
    /\ merge_base = EmptyMap
    /\ merge_args = << >>

\* one iteration of the page loop
ScrapePage ==
    /\ scr.running
    /\ \E page_listings \in ScrapePages :
          /\ scr' = ScrapePageStep(scr, page_listings, seen_external_ids, page_limit)
          /\ seen_external_ids' = seen_external_ids \cup ExtIdsOf(page_listings)
          /\ page_log' = Append(page_log,
                                [listings |-> Len(page_listings),
                                 new_count |-> NewCount(seen_external_ids,
                                                        page_listings)])
    \* "if page_num < page_limit: time.sleep(scraper.delay_seconds)"
    /\ scraper' = IF scr'.running
                  THEN [scraper EXCEPT !.slept = Append(@, scraper.delay_seconds)]
                  ELSE scraper
    /\ UNCHANGED <<jobVars, listings_by_id, merge_base, merge_args>>

\* an exception leaves _scrape_task (scrape_page itself catches what a
\* navigation raises; the schedulers' task handlers expect one all the same)
ScrapePageRaises ==
    /\ scr.running
    /\ scr' = [scr EXCEPT !.running = FALSE, !.raised = TRUE]
    /\ UNCHANGED <<jobVars, listings_by_id, seen_external_ids, page_log,
                   merge_base, merge_args, scraper>>

\* another worker's _scrape_task adds the ids of its page to the seen set
OtherWorkerSees ==
    /\ scr.running
    /\ \E page_listings \in ScrapePages :
          /\ ExtIdsOf(page_listings) \ seen_external_ids # {}
          /\ seen_external_ids' = seen_external_ids \cup ExtIdsOf(page_listings)
    /\ UNCHANGED <<jobVars, listings_by_id, scr, page_log, merge_base, merge_args,
                   scraper>>

ScrapeNext == ScrapePage \/ ScrapePageRaises \/ OtherWorkerSees

ScrapeSpec == ScrapeInit /\ [][ScrapeNext]_vars

LastPage == page_log[Len(page_log)]

\* C9: a page with zero listings is the last page the task fetches: the
\* loop has stopped right after it, and no page follows an empty page
C9_StopsAfterEmptyPage ==
    /\ scr.pages_scraped_local = Len(page_log)
    /\ \A n \in 1..(Len(page_log) - 1) : page_log[n].listings > 0
    /\ (page_log # << >> /\ LastPage.listings = 0) => ~scr.running

\* pages 1 and 2 bring 10 new listings each, page 3 none: 3 pages scraped
C9_Witness ==
    /\ page_limit > 3
    /\ Len(page_log) = 3
    /\ page_log[1] = [listings |-> PageSize, new_count |-> PageSize]
    /\ page_log[2] = [listings |-> PageSize, new_count |-> PageSize]
    /\ page_log[3].listings = 0
    /\ ~scr.running
    /\ scr.pages_scraped_local = 3
    /\ Len(scr.listings_data) = 2 * PageSize

\* the zero-new pages at the end of the log
RECURSIVE TrailingNoNew(_)
TrailingNoNew(log) ==
    IF log = << >> \/ log[Len(log)].new_count # 0 THEN 0
    ELSE 1 + TrailingNoNew(SubSeq(log, 1, Len(log) - 1))

\* C10: the task stops after the second consecutive page without a new id,
\* a page with a new id in between resets the count, and short of
\* page_limit and of an exception the loop stops for no other reason than
\* this and an empty page
C10_StopsAfterTwoNoNewPages ==
    /\ scr.no_new_pages = TrailingNoNew(page_log)
    /\ \A n \in 2..(Len(page_log) - 1) :
          ~(page_log[n - 1].new_count = 0 /\ page_log[n].new_count = 0)
    /\ TrailingNoNew(page_log) >= NoNewPagesStop => ~scr.running
    /\ (~scr.running /\ ~scr.raised) =>
          \/ Len(page_log) = page_limit
          \/ LastPage.listings = 0
          \/ TrailingNoNew(page_log) >= NoNewPagesStop
    /\ (Len(page_log) >= 3 /\ Len(page_log) < page_limit /\ ~scr.raised
        /\ page_log[Len(page_log) - 1].new_count = 0
        /\ LastPage.new_count >= 1)
       => scr.running

\* page 1 brings 10 new ids, pages 2 and 3 ten known listings each: the task
\* has stopped after 3 pages, short of page_limit
C10_Witness ==
    /\ page_limit > 3
    /\ page_log = <<[listings |-> PageSize, new_count |-> PageSize],
                    [listings |-> PageSize, new_count |-> 0],
                    [listings |-> PageSize, new_count |-> 0]>>
    /\ ~scr.running
    /\ ~scr.raised
    /\ scr.pages_scraped_local = 3

\* C19: the scraper's delay is at least 2 seconds: a configured delay below
\* 2 is raised to 2, one of 2 or more is kept, and between two consecutive
\* page fetches of a task the loop sleeps once, for that delay
C19_DelayAtLeastTwoSeconds ==
    /\ scraper.delay_seconds >= MinDelay
    /\ scraper.configured < MinDelay => scraper.delay_seconds = MinDelay
    /\ scraper.configured >= MinDelay => scraper.delay_seconds = scraper.configured
    /\ \A n \in DOMAIN scraper.slept :
          scraper.slept[n] >= MinDelay /\ scraper.slept[n] = scraper.delay_seconds
    /\ scr.running => Len(scraper.slept) = Len(page_log)
    /\ (~scr.running /\ ~scr.raised /\ page_log # << >>)
          => Len(scraper.slept) = Len(page_log) - 1

\* a scraper configured with 1.9 s has fetched three pages and slept twice
C19_Witness ==
    /\ scraper.configured = MinDelay - 1
    /\ Len(page_log) = 3
    /\ scraper.slept = <<MinDelay, MinDelay>>

\* C27: the pages a task fetches are 1, 2, 3, ... in this order without a
\* gap, at most page_limit of them, and pages_scraped_local is their number
\* (which is what the task returns when it ends without raising)
C27_PagesInOrder ==
    /\ scr.fetched = [n \in 1..Len(scr.fetched) |-> n]
    /\ Len(scr.fetched) <= page_limit
    /\ scr.pages_scraped_local = Len(scr.fetched)
    /\ Len(page_log) = Len(scr.fetched)
    /\ scr.running => scr.page_num = Len(scr.fetched) + 1

\* a task with a page limit of 4 has fetched pages 1 to 4 and ended
C27_Witness ==
    /\ page_limit = 4
    /\ scr.fetched = <<1, 2, 3, 4>>
    /\ ~scr.running /\ ~scr.raised
    /\ scr.pages_scraped_local = 4

(***************************************************************************)
(* The merger on drawn batches                                             *)
(***************************************************************************)
MergeListings ==
    {Listing(id, d) : id \in 1..MergeIds, d \in 1..MergeVersions}
    \cup {Listing(NoId, 1)}

RECURSIVE BatchesOfLen(_)
BatchesOfLen(n) ==
    IF n = 0 THEN {<< >>}
    ELSE {Append(b, l) : b \in BatchesOfLen(n - 1), l \in MergeListings}

MergeBatches == UNION {BatchesOfLen(n) : n \in 0..MaxBatchLen}

MergeKeywords == {NoKeyword, "a", "b"}

MergeInit ==
    /\ NoJob
    /\ FeedIdle
    /\ nav = NoNav
    /\ proxy_run = NoProxyRun
    /\ plan = NoPlan
    /\ manager = NoManager
    /\ gate = NoGate
    /\ page_limit = JobPageLimit
    /\ seen_external_ids = {}
    /\ listings_by_id = EmptyMap
    /\ scr = ScrapeStart
    /\ page_log = << >>
    /\ merge_base = EmptyMap
    /\ merge_args = << >>
    /\ scraper = NewScraper(DefaultDelay)

\* _merge_task_results(category, keyword, task_listings) on the job's map
MergeTask ==
    /\ Len(merge_args) < 2
    /\ \E task_listings \in MergeBatches, keyword \in MergeKeywords :
          /\ listings_by_id' = merge_task_results(listings_by_id, keyword,
                                                  task_listings)
          /\ merge_args' = Append(merge_args, [task_listings |-> task_listings,
                                               keyword |-> keyword])
    /\ UNCHANGED <<jobVars, page_limit, seen_external_ids, scr, page_log,
                   merge_base, scraper>>

\* the merges so far become the history of the map the next two start from
MergeGoesOn ==
    /\ merge_base = EmptyMap
    /\ Len(merge_args) = 1
    /\ listings_by_id # EmptyMap
    /\ merge_base' = listings_by_id
    /\ merge_args' = << >>
    /\ UNCHANGED <<jobVars, page_limit, seen_external_ids, scr, page_log,
                   listings_by_id, scraper>>

MergeNext == MergeTask \/ MergeGoesOn

MergeSpec == MergeInit /\ [][MergeNext]_vars

Merged(m, arg) == merge_task_results(m, arg.keyword, arg.task_listings)

BatchIds(arg) == ExtIdsOf(arg.task_listings)

\* the data the map holds for id after the batch was merged: the last
\* listing of the batch with that id
RECURSIVE LastWithId(_, _)
LastWithId(task_listings, id) ==
    IF task_listings[Len(task_listings)].external_id = id
    THEN task_listings[Len(task_listings)]
    ELSE LastWithId(SubSeq(task_listings, 1, Len(task_listings) - 1), id)

\* C5: merging the same batch with the same keyword twice leaves the map
\* as merging it once
C5_MergeIdempotent ==
    (Len(merge_args) = 2 /\ merge_args[1] = merge_args[2])
    => listings_by_id = Merged(merge_base, merge_args[1])

\* a batch holding two versions of one listing, merged twice with a keyword
\* into a map that holds other entries
C5_Witness ==
    /\ Len(merge_args) = 2
    /\ merge_args[1] = merge_args[2]
    /\ merge_args[1].keyword # NoKeyword
    /\ merge_base # EmptyMap
    /\ LET b == merge_args[1].task_listings
       IN /\ Len(b) = 2
          /\ b[1].external_id = b[2].external_id
          /\ b[1] # b[2]
          /\ b[1].external_id \notin DOMAIN merge_base

\* C6 as claimed: merging two batches in either order gives the same map,
\* data and keyword sets
C6_MergeCommutes ==
    Len(merge_args) = 2
    => listings_by_id = Merged(Merged(merge_base, merge_args[2]), merge_args[1])

\* C6 as amended: merging two batches in either order gives the same ids and
\* the same keyword set for every id, and the same data for every id that is
\* not in both batches; an id in both batches holds the data of the batch
\* merged last
C6_MergeCommutesButForSharedData ==
    Len(merge_args) = 2
    => LET other == Merged(Merged(merge_base, merge_args[2]), merge_args[1])
       IN /\ DOMAIN listings_by_id = DOMAIN other
          /\ \A id \in DOMAIN listings_by_id :
                /\ listings_by_id[id].keywords = other[id].keywords
                /\ id \notin BatchIds(merge_args[1]) \cap BatchIds(merge_args[2])
                      => listings_by_id[id].data = other[id].data
                /\ id \in BatchIds(merge_args[2])
                      => listings_by_id[id].data
                           = LastWithId(merge_args[2].task_listings, id)

\* two batches with different keywords that share an id, in different
\* versions, and hold an id each that the other does not
C6_Witness ==
    /\ Len(merge_args) = 2
    /\ merge_args[1].keyword # NoKeyword
    /\ merge_args[2].keyword # NoKeyword
    /\ merge_args[1].keyword # merge_args[2].keyword
    /\ \E id \in BatchIds(merge_args[1]) \cap BatchIds(merge_args[2]) :
          /\ LastWithId(merge_args[1].task_listings, id)
                # LastWithId(merge_args[2].task_listings, id)
          /\ listings_by_id[id].keywords
                = {merge_args[1].keyword, merge_args[2].keyword}
    /\ BatchIds(merge_args[1]) # BatchIds(merge_args[2])

\* the keyword set a merge with this keyword adds to an entry
KeywordAdded(keyword) == IF keyword = NoKeyword THEN {} ELSE {keyword}

\* C20: after a batch is merged with keyword k into a map, every id of the
\* batch that was not in the map has an entry with the batch's (last)
\* listing of that id as data and {k}, or nothing if k is empty, as keyword
\* set; every id of the batch that was in the map has that listing as data
\* and its former keywords with k added; the other entries are as before;
\* and a listing without external id leaves no entry
C20_MergeReference ==
    Len(merge_args) = 1 =>
        LET arg == merge_args[1]
            ids == {arg.task_listings[i].external_id :
                        i \in DOMAIN arg.task_listings} \ {NoId}
        IN /\ DOMAIN listings_by_id = DOMAIN merge_base \cup ids
           /\ NoId \notin DOMAIN listings_by_id
           /\ \A id \in ids \ DOMAIN merge_base :
                 /\ listings_by_id[id].data = LastWithId(arg.task_listings, id)
                 /\ listings_by_id[id].keywords = KeywordAdded(arg.keyword)
           /\ \A id \in ids \cap DOMAIN merge_base :
                 /\ listings_by_id[id].data = LastWithId(arg.task_listings, id)
                 /\ listings_by_id[id].keywords
                       = merge_base[id].keywords \cup KeywordAdded(arg.keyword)
           /\ \A id \in DOMAIN merge_base \ ids :
                 listings_by_id[id] = merge_base[id]

\* the map held id 1 under keyword "a"; a batch with a newer listing of id
\* 1 and a listing of the new id 2 was merged with keyword "b"
C20_Witness ==
    /\ Len(merge_args) = 1
    /\ DOMAIN merge_base = {1}
    /\ merge_base[1] = [data |-> Listing(1, 1), keywords |-> {"a"}]
    /\ merge_args[1] = [task_listings |-> <<Listing(1, 2), Listing(2, 1)>>,
                        keyword |-> "b"]
    /\ listings_by_id[1] = [data |-> Listing(1, 2), keywords |-> {"a", "b"}]
    /\ listings_by_id[2] = [data |-> Listing(2, 1), keywords |-> {"b"}]

(***************************************************************************)
(* Job submission: trigger_scraper, the JobRecord and its snapshots        *)
(***************************************************************************)
\* the variables of the job, the page loop and the merger
coreVars == <<configVars, job_pc, listings_by_id, total_pages_scraped,
              seen_external_ids, multiVars, single, obsVars, scr, page_log,
              merge_base, merge_args, scraper>>

\* the job, the page loop and the merger at rest
CoreIdle ==
    /\ NoJob
    /\ page_limit = JobPageLimit
    /\ listings_by_id = EmptyMap
    /\ seen_external_ids = {}
    /\ scr = ScrapeStart
    /\ page_log = << >>
    /\ merge_base = EmptyMap
    /\ merge_args = << >>
    /\ scraper = NewScraper(DefaultDelay)

\* a value of the request body: an integer v, the number v + 0.5, the
\* string of the digits of v, a string that is no number, null
RawValue(kind, v) == [kind |-> kind, v |-> v]

\* int(raw): a float is truncated, a string of digits is parsed, any other
\* string raises ValueError and null raises TypeError
ToInt(raw) ==
    IF raw.kind \in {"int", "float", "digits"}
    THEN [ok |-> TRUE, v |-> raw.v]
    ELSE [ok |-> FALSE, v |-> 0]

RawPageLimits ==
    {RawValue("int", v) : v \in {MinPages - 1, MinPages, MaxPages, MaxPages + 1}}
    \cup {RawValue("float", MinPages + 1), RawValue("float", MaxPages),
          RawValue("digits", MinPages + 6), RawValue("text", 0),
          RawValue("null", 0)}

RawConcurrencies ==
    {RawValue("int", v) : v \in {MinConcurrency - 1, MinConcurrency,
                                 MaxConcurrency, MaxConcurrency + 1}}
    \cup {RawValue("float", MinConcurrency + 1), RawValue("text", 0)}

\* the checks of trigger_scraper, in their order: the status of the error
\* response, or 0 and the values the job is run with
ValidateRequest(page_limit_raw, concurrency_raw) ==
    LET p == ToInt(page_limit_raw)
        c == ToInt(concurrency_raw)
    IN IF ~p.ok \/ p.v < MinPages \/ p.v > MaxPages
          \/ ~c.ok \/ c.v < MinConcurrency \/ c.v > MaxConcurrency
       THEN [error |-> 400, page_limit |-> 0, concurrency |-> 0]
       ELSE [error |-> 0, page_limit |-> p.v, concurrency |-> c.v]

\* a progress dict as the callers of _save_job_progress build it
Progress(status, error) ==
    [status |-> status, stamp |-> 0, completed |-> FALSE, error |-> error]

\* faulty variant: the completed flag is set on every call
PayloadAlwaysCompleted(progress, stamp, completed) ==
    [progress EXCEPT !.stamp = stamp, !.completed = TRUE]

\* faulty variant: the completed flag is never set
PayloadNeverCompleted(progress, stamp, completed) ==
    [progress EXCEPT !.stamp = stamp]

\* the payload of _save_job_progress: the progress, stamped, and flagged
\* completed only on a terminal call
SavedPayload(progress, stamp, completed) ==
    [progress EXCEPT !.stamp = stamp, !.completed = completed]

SubmitStart(page_limit_raw, concurrency_raw, stream) ==
    [pc |-> "request", page_limit_raw |-> page_limit_raw,
     concurrency_raw |-> concurrency_raw, stream |-> stream, response |-> 0,
     page_limit |-> 0, concurrency |-> 0, saves |-> 0, raised |-> FALSE]

SubmitInit ==
    /\ CoreIdle
    /\ \E p \in RawPageLimits, c \in RawConcurrencies, stream \in BOOLEAN :
          submit = SubmitStart(p, c, stream)
    /\ job_record = NoRecord
    /\ published = << >>
    /\ consumer = NoConsumer
    /\ clock = 0
    /\ nav = NoNav
    /\ proxy_run = NoProxyRun
    /\ plan = NoPlan
    /\ manager = NoManager
    /\ gate = NoGate

\* _save_job_progress: the snapshot is persisted in the row, then handed to
\* progress_manager
SaveJobProgress(progress, completed) ==
    LET payload == SavedPayload(progress, submit.saves + 1, completed) IN
    /\ job_record' = [job_record EXCEPT !.progress_json = payload]
    /\ published' = Append(published, payload)

\* trigger_scraper up to the commit of the new row: a request that fails a
\* check is answered with 400
SubmitValidate ==
    /\ submit.pc = "request"
    /\ LET v == ValidateRequest(submit.page_limit_raw, submit.concurrency_raw) IN
       IF v.error # 0
       THEN /\ submit' = [submit EXCEPT !.pc = "done", !.response = v.error]
            /\ UNCHANGED job_record
       ELSE /\ submit' = [submit EXCEPT !.pc = "created",
                                        !.page_limit = v.page_limit,
                                        !.concurrency = v.concurrency]
            /\ job_record' = [NoRecord EXCEPT !.status = "running",
                                              !.history = <<"running">>]
    /\ UNCHANGED <<coreVars, published, consumer, clock, nav, proxy_run, plan, manager, gate>>

\* the initial snapshot; then the orchestration is started, on a thread
\* (the request is answered with 202) or in the request
SubmitRun ==
    /\ submit.pc = "created"
    /\ SaveJobProgress(Progress("running", FALSE), FALSE)
    /\ submit' = [submit EXCEPT !.pc = "running", !.saves = @ + 1,
                                !.response = IF submit.stream THEN 202 ELSE 0]
    /\ UNCHANGED <<coreVars, consumer, clock, nav, proxy_run, plan, manager, gate>>

\* _run_scraper_job saves a running snapshot
RunProgress ==
    /\ submit.pc = "running"
    /\ submit.saves <= MaxSaves
    /\ SaveJobProgress(Progress("running", FALSE), FALSE)
    /\ submit' = [submit EXCEPT !.saves = @ + 1]
    /\ UNCHANGED <<coreVars, consumer, clock, nav, proxy_run, plan, manager, gate>>

\* _run_scraper_job raises before it has marked the row: the single-session
\* mode has no attempt left, or a collaborator raised
RunRaises ==
    /\ submit.pc = "running"
    /\ submit' = [submit EXCEPT !.pc = "raised", !.raised = TRUE]
    /\ UNCHANGED <<coreVars, job_record, published, consumer, clock, nav, proxy_run, plan, manager, gate>>

\* job.status = 'completed' with the counts, committed
RunMarkCompleted ==
    /\ submit.pc = "running"
    /\ job_record' = [job_record EXCEPT !.status = "completed",
                                        !.history = Append(@, "completed")]
    /\ submit' = [submit EXCEPT !.pc = "marked"]
    /\ UNCHANGED <<coreVars, published, consumer, clock, nav, proxy_run, plan, manager, gate>>

\* the terminal snapshot of _run_scraper_job; its commit may raise, and the
\* exception leaves _run_scraper_job
RunSaveTerminal ==
    /\ submit.pc = "marked"
    /\ \/ /\ SaveJobProgress(Progress("completed", FALSE), TRUE)
          /\ submit' = [submit EXCEPT !.pc = "returned", !.saves = @ + 1]
       \/ /\ submit' = [submit EXCEPT !.pc = "raised", !.raised = TRUE]
          /\ UNCHANGED <<job_record, published>>
    /\ UNCHANGED <<coreVars, consumer, clock, nav, proxy_run, plan, manager, gate>>

\* _run_scraper_job has returned: the synchronous request is answered
SubmitReturn ==
    /\ submit.pc = "returned"
    /\ submit' = [submit EXCEPT !.pc = "done",
                                !.response = IF submit.stream THEN @ ELSE 201]
    /\ UNCHANGED <<coreVars, job_record, published, consumer, clock, nav, proxy_run, plan, manager, gate>>

\* "except Exception" of runner and of the synchronous mode: the row is
\* marked failed with the message, committed
SubmitMarkFailed ==
    /\ submit.pc = "raised"
    /\ job_record' = [job_record EXCEPT !.status = "failed",
                                        !.error_message = TRUE,
                                        !.history = Append(@, "failed")]
    /\ submit' = [submit EXCEPT !.pc = "failing"]
    /\ UNCHANGED <<coreVars, published, consumer, clock, nav, proxy_run, plan, manager, gate>>

\* ... and the terminal failed snapshot is saved
SubmitSaveFailed ==
    /\ submit.pc = "failing"
    /\ SaveJobProgress(Progress("failed", TRUE), TRUE)
    /\ submit' = [submit EXCEPT !.pc = "done", !.saves = @ + 1,
                                !.response = IF submit.stream THEN @ ELSE 500]
    /\ UNCHANGED <<coreVars, consumer, clock, nav, proxy_run, plan, manager, gate>>

SubmitNext ==
    \/ SubmitValidate
    \/ SubmitRun
    \/ RunProgress
    \/ RunRaises
    \/ RunMarkCompleted
    \/ RunSaveTerminal
    \/ SubmitReturn
    \/ SubmitMarkFailed
    \/ SubmitSaveFailed

SubmitSpec == SubmitInit /\ [][SubmitNext]_vars

IsPrefix(a, b) == Len(a) <= Len(b) /\ SubSeq(b, 1, Len(a)) = a

LastPublished == published[Len(published)]

C11_TerminalStatusOnce ==
    \/ IsPrefix(job_record.history, <<"running", "completed">>)
    \/ IsPrefix(job_record.history, <<"running", "failed">>)

\* C12: when the orchestration has raised and the request is dealt with, in
\* either mode, the row is failed with the error message and the last
\* snapshot, persisted and published, is failed with completed = true
C12_RaiseEndsFailed ==
    (submit.pc = "done" /\ submit.raised) =>
        /\ job_record.status = "failed"
        /\ job_record.error_message
        /\ LastPublished.status = "failed"
        /\ LastPublished.completed
        /\ LastPublished.error
        /\ job_record.progress_json = LastPublished
        /\ \A n \in 1..(Len(published) - 1) : ~published[n].completed
        /\ ~submit.stream => submit.response = 500

\* a streamed job that raised after two running snapshots
C12_Witness ==
    /\ submit.pc = "done"
    /\ submit.raised
    /\ submit.stream
    /\ Len(published) = 3
    /\ published[2].status = "running"
    /\ job_record.history = <<"running", "failed">>

\* the request is valid as the interface states it: integers (or their
\* digits) within the ranges
InRange(raw, lo, hi) == raw.kind \in {"int", "digits"} /\ raw.v >= lo /\ raw.v <= hi

\* C18: a request whose page limit is not an integer of [1,50] or whose
\* concurrency is not an integer of [1,4] is answered with an error, and
\* no row is created, no snapshot published, no orchestration started
C18_InvalidRequestRejected ==
    (/\ submit.pc # "request"
     /\ \/ ~InRange(submit.page_limit_raw, MinPages, MaxPages)
        \/ ~InRange(submit.concurrency_raw, MinConcurrency, MaxConcurrency))
    => /\ submit.pc = "done"
       /\ submit.response = 400
       /\ job_record = NoRecord
       /\ published = << >>

(***************************************************************************)
(* The polling consumer of the progress feed: get_scraper_progress         *)
(***************************************************************************)
\* last_payload = None
NoPayload ==
    [status |-> "none", stamp |-> 0, completed |-> FALSE, error |-> FALSE,
     waiting |-> FALSE]

\* the "completed" of generate(): the snapshot says so, or the row's status
RowCompleted(row) ==
    row.progress_json.completed \/ row.status \in {"completed", "failed"}

\* faulty variant: the payload is not flagged when the row is completed
PayloadAsPersisted(row, now) ==
    IF row.progress_json # NoSnapshot
    THEN [status |-> row.progress_json.status, stamp |-> row.progress_json.stamp,
          completed |-> row.progress_json.completed,
          error |-> row.progress_json.error, waiting |-> FALSE]
    ELSE [status |-> row.status, stamp |-> now, completed |-> FALSE,
          error |-> FALSE, waiting |-> TRUE]

\* the payload generate() builds from the row: the persisted snapshot, or
\* the waiting default stamped with the time of the poll; flagged completed,
\* with the row's error, when the row is completed
ConsumerPayload(row, now) ==
    LET progress ==
            IF row.progress_json # NoSnapshot
            THEN [status |-> row.progress_json.status,
                  stamp |-> row.progress_json.stamp,
                  completed |-> row.progress_json.completed,
                  error |-> row.progress_json.error, waiting |-> FALSE]
            ELSE [status |-> row.status, stamp |-> now, completed |-> FALSE,
                  error |-> FALSE, waiting |-> TRUE]
    IN IF RowCompleted(row)
       THEN [progress EXCEPT !.completed = TRUE,
                             !.error = @ \/ row.status = "failed"]
       ELSE progress

\* faulty variant: the keepalive waits for more than 30 seconds
KeepaliveLate(now, last_activity) == now - last_activity > KeepaliveSeconds

\* "time.time() - last_activity >= 30"
KeepaliveDue(now, last_activity) == now - last_activity >= KeepaliveSeconds

\* an emitted event, the time it was emitted and the row it was built
\* from; run: how many events of this type the stream has emitted in a row
\* (counted up to 2)
SseEvent(type, at, row, last) ==
    [type |-> type, at |-> at, snapshot |-> row.progress_json,
     status |-> row.status,
     run |-> IF last.type = type THEN 2 ELSE 1]

NoEvent ==
    [type |-> "none", at |-> 0, snapshot |-> NoSnapshot, status |-> "none",
     run |-> 0]

\* kind "poll": generate() of get_scraper_progress; last_activity, polled_at
\* are times of its clock
ConsumerStart ==
    [kind |-> "poll", pc |-> "connect", last_payload |-> NoPayload,
     last_activity |-> 0, polled |-> FALSE, polled_at |-> 0,
     saw_completed |-> FALSE, next |-> 0, last_event |-> NoEvent]

\* kind "subscribe": generate_sse_stream on a queue of progress_manager;
\* next: the index in published of the head of its queue, last_activity:
\* the time its q.get(timeout = 30) began
SubscriberStart == [ConsumerStart EXCEPT !.kind = "subscribe"]

ProgressInit ==
    /\ CoreIdle
    /\ submit = SubmitStart(RawValue("int", MinPages),
                            RawValue("int", MinConcurrency), TRUE)
    /\ job_record = NoRecord
    /\ published = << >>
    /\ consumer \in {ConsumerStart, SubscriberStart}
    /\ clock = 0
    /\ nav = NoNav
    /\ proxy_run = NoProxyRun
    /\ plan = NoPlan
    /\ manager = NoManager
    /\ gate = NoGate

\* the request for the feed of a row that exists: the connected event
ConsumerConnect ==
    /\ consumer.kind = "poll"
    /\ consumer.pc = "connect"
    /\ job_record # NoRecord
    /\ consumer' = [consumer EXCEPT
                        !.pc = "polling",
                        !.last_activity = clock,
                        !.last_event = SseEvent("connected", clock, job_record, @)]
    /\ UNCHANGED <<coreVars, submit, job_record, published, clock, nav, proxy_run, plan, manager, gate>>

\* one iteration of the loop of generate(): the row is read, and a
\* complete, progress or ping event is emitted, or nothing; time.sleep(1)
\* has passed since the iteration before
ConsumerPoll ==
    /\ consumer.kind = "poll"
    /\ consumer.pc = "polling"
    /\ consumer.polled => clock - consumer.polled_at >= PollSeconds
    /\ LET payload == ConsumerPayload(job_record, clock)
           completed == RowCompleted(job_record)
           polled == [consumer EXCEPT !.polled = TRUE, !.polled_at = clock,
                                      !.saw_completed = completed]
       IN IF payload # consumer.last_payload
          THEN consumer' =
                  [polled EXCEPT
                      !.last_payload = payload,
                      !.last_activity = clock,
                      !.pc = IF completed THEN "closed" ELSE "polling",
                      !.last_event = SseEvent(IF completed THEN "complete"
                                              ELSE "progress",
                                              clock, job_record, @)]
          ELSE IF KeepaliveDue(clock, consumer.last_activity)
          THEN consumer' =
                  [polled EXCEPT
                      !.last_activity = clock,
                      !.last_event = SseEvent("ping", clock, job_record, @)]
          ELSE consumer' = polled
    /\ UNCHANGED <<coreVars, submit, job_record, published, clock, nav, proxy_run, plan, manager, gate>>

\* progress_manager.subscribe: the queue starts with the current progress
\* of the job, if there is one; then the connected event
SubscriberConnect ==
    /\ consumer.kind = "subscribe"
    /\ consumer.pc = "connect"
    /\ consumer' = [consumer EXCEPT
                        !.pc = "waiting",
                        !.next = IF published = << >> THEN 1 ELSE Len(published),
                        !.last_activity = clock,
                        !.last_event = SseEvent("connected", clock, job_record, @)]
    /\ UNCHANGED <<coreVars, submit, job_record, published, clock, nav, proxy_run, plan, manager, gate>>

\* q.get returns a snapshot: a progress event, or the complete event that
\* ends the stream
SubscriberGet ==
    /\ consumer.kind = "subscribe"
    /\ consumer.pc = "waiting"
    /\ consumer.next <= Len(published)
    /\ LET progress == published[consumer.next] IN
       consumer' = [consumer EXCEPT
                       !.next = @ + 1,
                       !.last_activity = clock,
                       !.saw_completed = progress.completed,
                       !.pc = IF progress.completed THEN "closed" ELSE "waiting",
                       !.last_event =
                           [SseEvent(IF progress.completed THEN "complete"
                                     ELSE "progress", clock, job_record, @)
                            EXCEPT !.snapshot = progress]]
    /\ UNCHANGED <<coreVars, submit, job_record, published, clock, nav, proxy_run, plan, manager, gate>>

\* q.get(timeout = 30) raises queue.Empty: the keepalive ping
SubscriberTimeout ==
    /\ consumer.kind = "subscribe"
    /\ consumer.pc = "waiting"
    /\ consumer.next > Len(published)
    /\ clock - consumer.last_activity >= KeepaliveSeconds
    /\ consumer' = [consumer EXCEPT
                        !.last_activity = clock,
                        !.last_event = SseEvent("ping", clock, job_record, @)]
    /\ UNCHANGED <<coreVars, submit, job_record, published, clock, nav, proxy_run, plan, manager, gate>>

\* a second passes on the consumer's clock (it starts with the stream); the
\* polling consumer is not held up beyond MaxPollGap, and the timeout of
\* q.get is not late
Tick ==
    /\ clock < MaxClock
    /\ consumer.pc # "connect"
    /\ (consumer.pc = "polling" /\ consumer.polled)
          => clock - consumer.polled_at < MaxPollGap
    /\ consumer.pc = "waiting"
          => clock - consumer.last_activity < KeepaliveSeconds
    /\ clock' = clock + 1
    /\ UNCHANGED <<coreVars, submit, job_record, published, consumer, nav, proxy_run, plan, manager, gate>>

ProgressNext ==
    \/ SubmitValidate
    \/ SubmitRun
    \/ RunProgress
    \/ RunRaises
    \/ RunMarkCompleted
    \/ RunSaveTerminal
    \/ SubmitReturn
    \/ SubmitMarkFailed
    \/ SubmitSaveFailed
    \/ ConsumerConnect
    \/ ConsumerPoll
    \/ SubscriberConnect
    \/ SubscriberGet
    \/ SubscriberTimeout
    \/ Tick

ProgressSpec == ProgressInit /\ [][ProgressNext]_vars

\* the step emits an event of this type
Emits(type) ==
    consumer'.last_event # consumer.last_event /\ consumer'.last_event.type = type

Polling == consumer.kind = "poll"

\* C13: the polling consumer emits a progress event only for a snapshot
\* that differs from the one it emitted last: it never emits two progress
\* events in a row for the same state of the row, the row without a
\* persisted snapshot (the waiting default) included
C13_IdenticalSnapshotsOneEvent ==
    [][(Polling /\ Emits("progress") /\ consumer.last_event.type = "progress")
       => \/ consumer'.last_event.snapshot # consumer.last_event.snapshot
          \/ consumer'.last_event.status # consumer.last_event.status]_vars

\* C14: either consumer emits a ping no sooner than 30 seconds after its
\* last emitted event (two pings in a row are 30 seconds apart, give or take
\* the time between two polls), and it emits one when it has found no new
\* snapshot for 30 seconds: after a poll, and at any time on a subscriber's
\* stream, the last event is less than 30 seconds old or is just due
C14_OneKeepalivePerWindow ==
    [][/\ Emits("ping") =>
             /\ consumer'.last_event.at - consumer.last_event.at >= KeepaliveSeconds
             /\ consumer'.last_event.at - consumer.last_event.at
                   < KeepaliveSeconds + MaxPollGap
       /\ (consumer'.pc = "polling" /\ consumer'.polled)
             => consumer'.polled_at - consumer'.last_event.at < KeepaliveSeconds
       /\ consumer'.pc = "waiting"
             => clock' - consumer'.last_event.at <= KeepaliveSeconds]_vars

\* two pings in a row, the second 30 seconds after the first, while the
\* job is running
C14_Witness ==
    /\ Polling
    /\ consumer.last_event.type = "ping"
    /\ consumer.last_event.run = 2
    /\ consumer.last_event.at = 2 * KeepaliveSeconds
    /\ job_record.status = "running"

\* C15: a poll that finds the row completed (by its snapshot or by its
\* status) emits the complete event and ends the stream: a consumer that
\* goes on polling has not seen the row completed, the stream has ended if
\* and only if its last event is the complete event, and no event follows
\* a complete event
C15_ConsumerEndsOnCompleted ==
    [][/\ (consumer'.pc = "polling" /\ consumer'.polled) => ~consumer'.saw_completed
       /\ consumer'.pc = "closed" <=> consumer'.last_event.type = "complete"
       /\ (Polling /\ Emits("complete")) => RowCompleted(job_record)
       /\ consumer.last_event.type = "complete"
             => consumer'.last_event = consumer.last_event]_vars

\* the consumer emitted the running snapshot as a progress event, then found
\* the row marked completed with that same snapshot, and ended with the
\* complete event
C15_Witness ==
    /\ Polling
    /\ consumer.pc = "closed"
    /\ consumer.last_event.type = "complete"
    /\ consumer.last_event.status = "completed"
    /\ consumer.last_event.snapshot.status = "running"
    /\ ~consumer.last_event.snapshot.completed
    /\ consumer.last_payload.completed

\* C38: the payload of the complete event of the polling stream is the
\* job's terminal snapshot: its status is the terminal status the row had
\* when the event was built, completed or failed
C38_CompleteEventCarriesTerminalSnapshot ==
    (consumer.kind = "poll" /\ consumer.last_event.type = "complete") =>
        /\ consumer.last_payload.status \in {"completed", "failed"}
        /\ consumer.last_payload.status = consumer.last_event.status

(***************************************************************************)
(* ProxySpec: the primary proxy of every worker of a job, in two runs of   *)
(* the same configuration                                                  *)
(***************************************************************************)
Unassigned == "unassigned"

\* the pools of _get_playwright_proxy_pool: prefixes of ProxyNames
AssignmentPools == {SubSeq(ProxyNames, 1, n) : n \in 0..Len(ProxyNames)}

\* worker ids: range(concurrency)
WorkerRange(n) == 0..(n - 1)

ProxyRunStart(pool, n) ==
    [pc |-> "assigning", pool |-> pool, workers |-> n, run |-> 1,
     assigned |-> [i \in WorkerRange(n) |-> Unassigned],
     earlier |-> [i \in WorkerRange(n) |-> Unassigned]]

ProxyInit ==
    /\ CoreIdle
    /\ FeedIdle
    /\ nav = NoNav
    /\ plan = NoPlan
    /\ manager = NoManager
    /\ gate = NoGate
    /\ \E pool \in AssignmentPools, n \in MinConcurrency..MaxConcurrency :
          proxy_run = ProxyRunStart(pool, n)

\* a worker thread starts: assigned_proxy = _proxy_for_worker(worker_id);
\* the threads start in any order
AssignProxy(i) ==
    /\ proxy_run.pc = "assigning"
    /\ proxy_run.assigned[i] = Unassigned
    /\ proxy_run' = [proxy_run EXCEPT
                         !.assigned[i] = proxy_for_worker(proxy_run.pool, i)]
    /\ UNCHANGED <<coreVars, feedVars, nav, plan, manager, gate>>

\* the job ends and a job of the same configuration starts
NextRun ==
    /\ proxy_run.pc = "assigning"
    /\ proxy_run.run = 1
    /\ \A i \in WorkerRange(proxy_run.workers) : proxy_run.assigned[i] # Unassigned
    /\ proxy_run' = [proxy_run EXCEPT
                         !.run = 2,
                         !.earlier = proxy_run.assigned,
                         !.assigned = [i \in WorkerRange(proxy_run.workers) |-> Unassigned]]
    /\ UNCHANGED <<coreVars, feedVars, nav, plan, manager, gate>>

ProxyNext ==
    \/ \E i \in WorkerRange(proxy_run.workers) : AssignProxy(i)
    \/ NextRun

ProxySpec == ProxyInit /\ [][ProxyNext]_vars

\* C16: the primary proxy of worker i is the pool's entry at position i mod P
\* (counted from 0), it is no proxy (a direct connection) for every worker
\* when the pool is empty, and a second run of the same configuration
\* assigns every worker the proxy of the first run
C16_ProxyAssignmentDeterministic ==
    proxy_run.pc = "assigning" =>
        \A i \in WorkerRange(proxy_run.workers) :
            LET P == Len(proxy_run.pool) IN
            proxy_run.assigned[i] # Unassigned =>
                /\ P = 0 => proxy_run.assigned[i] = Direct
                /\ P >= 1 =>
                      \E k \in 0..(P - 1) :
                          /\ \E q \in 0..MaxConcurrency : i = q * P + k
                          /\ proxy_run.assigned[i] = proxy_run.pool[k + 1]
                /\ proxy_run.run = 2 => proxy_run.assigned[i] = proxy_run.earlier[i]

\* four workers on a pool of three, second run: worker 3 wraps around to
\* the head of the pool, as in the first run
C16_Witness ==
    /\ proxy_run.pc = "assigning"
    /\ proxy_run.run = 2
    /\ proxy_run.workers = MaxConcurrency
    /\ Len(proxy_run.pool) = 3
    /\ proxy_run.assigned = [i \in WorkerRange(MaxConcurrency) |->
                                 proxy_run.pool[IF i = 3 THEN 1 ELSE i + 1]]
    /\ proxy_run.earlier = proxy_run.assigned

(***************************************************************************)
(* NavSpec: one call of scrape_page and the calls it makes of itself, one  *)
(* navigation (page.goto and what follows it) per step                     *)
(***************************************************************************)
\* what a navigation comes to: page.goto returns nothing; page.goto or a
\* later call on the page raises; the status is 429, 5xx, another 4xx; the
\* content looks like a block page; no article is found; articles are found
NavOutcomes ==
    {"no_response", "exception", "rate_limited", "server_error",
     "client_error", "blocked", "zero_listings", "listings"}

\* faulty variant: a client error is retried like a server error
RetryClientErrors(outcome, retry_count) ==
    CASE outcome = "listings" -> FALSE
      [] outcome = "zero_listings" -> retry_count < 1
      [] OTHER -> retry_count < 3

\* faulty variant: the last retry is followed by one more
RetryOnceMore(outcome, retry_count) ==
    CASE outcome \in {"client_error", "listings"} -> FALSE
      [] outcome = "zero_listings" -> retry_count < 1
      [] OTHER -> retry_count <= MAX_RETRIES

\* does scrape_page call itself with retry_count + 1 after this outcome:
\* "if retry_count < MAX_RETRIES" in every failure branch and in the
\* except clause, "retry_count < 1" for a page without articles, never for
\* a client error
RetryAllowed(outcome, retry_count) ==
    CASE outcome \in {"client_error", "listings"} -> FALSE
      [] outcome = "zero_listings" -> retry_count < 1
      [] OTHER -> retry_count < MAX_RETRIES

\* faulty variant: HTTP 429 is backed off like a server error
BackoffNeverGrows(outcome, retry_count, delay_seconds) ==
    CASE outcome \in {"client_error", "listings"} -> 0
      [] outcome = "rate_limited" -> delay_seconds * 2
      [] outcome = "zero_listings" /\ retry_count < 1 -> delay_seconds
      [] retry_count >= 3 -> 0
      [] OTHER -> delay_seconds * 2

\* 2 ** n
Pow2(n) == IF n = 0 THEN 1 ELSE IF n = 1 THEN 2 ELSE IF n = 2 THEN 4
           ELSE IF n = 3 THEN 8 ELSE 16

\* the time.sleep of a branch, in tenths of a second; 0: the branch does
\* not sleep. HTTP 429 sleeps before it looks at retry_count
BackoffTime(outcome, retry_count, delay_seconds) ==
    CASE outcome = "rate_limited" -> delay_seconds * Pow2(retry_count + 1)
      [] outcome \in {"client_error", "listings"} -> 0
      [] ~RetryAllowed(outcome, retry_count) -> 0
      [] outcome = "blocked" -> delay_seconds * Pow2(retry_count + 1)
      [] outcome = "zero_listings" -> delay_seconds
      [] OTHER -> delay_seconds * 2

\* the list scrape_page returns when it does not call itself: the parsed
\* listings, or []
PageResult(outcome) == IF outcome = "listings" THEN "listings" ELSE "empty"

\* scrape_page(page, url): retry_count = 0; sleeps: the time.sleep of the
\* failure branch after each navigation, 0 where the branch does not sleep
NavStart ==
    [pc |-> "call", retry_count |-> 0, navigations |-> 0, outcomes |-> << >>,
     slept |-> 0, sleeps |-> << >>, result |-> "none", raised |-> FALSE]

NavInit ==
    /\ CoreIdle
    /\ FeedIdle
    /\ proxy_run = NoProxyRun
    /\ plan = NoPlan
    /\ manager = NoManager
    /\ gate = NoGate
    /\ nav = NavStart

\* the body of one call of scrape_page; an exception of the try block is
\* the outcome "exception", handled by the except clause of the same call
Navigate(outcome) ==
    /\ nav.pc = "call"
    /\ LET retry == RetryAllowed(outcome, nav.retry_count) IN
       nav' = [nav EXCEPT
                  !.navigations = @ + 1,
                  !.outcomes = Append(@, outcome),
                  !.slept = @ + BackoffTime(outcome, nav.retry_count,
                                            scraper.delay_seconds),
                  !.sleeps = Append(@, BackoffTime(outcome, nav.retry_count,
                                                   scraper.delay_seconds)),
                  !.retry_count = IF retry THEN @ + 1 ELSE @,
                  !.pc = IF retry THEN "call" ELSE "returned",
                  !.result = IF retry THEN "none" ELSE PageResult(outcome)]
    /\ UNCHANGED <<coreVars, feedVars, proxy_run, plan, manager, gate>>

NavNext == \E outcome \in NavOutcomes : Navigate(outcome)

NavSpec == NavInit /\ [][NavNext]_vars

\* C17: scrape_page navigates at most MAX_RETRIES + 1 = 4 times whatever
\* the outcomes are, every navigation uses up one unit of the one retry
\* counter (so the call ends), it never raises, and when it ends on a
\* failure or on a page without articles its result is the empty list
C17_ScrapePageTerminates ==
    /\ nav.pc \in {"call", "returned"} =>
          /\ nav.navigations <= MAX_RETRIES + 1
          /\ ~nav.raised
    /\ nav.pc = "call" =>
          /\ nav.navigations = nav.retry_count
          /\ nav.retry_count <= MAX_RETRIES
    /\ nav.pc = "returned" =>
          /\ nav.navigations = nav.retry_count + 1
          /\ nav.result \in {"empty", "listings"}
          /\ nav.outcomes[nav.navigations] # "listings" => nav.result = "empty"
          /\ nav.result = "listings" <=> nav.outcomes[nav.navigations] = "listings"

\* four navigations failing in four different ways, the last one raising:
\* the retries are exhausted and the result is the empty list
C17_Witness ==
    /\ nav.pc = "returned"
    /\ nav.navigations = MAX_RETRIES + 1
    /\ nav.outcomes = <<"no_response", "rate_limited", "blocked", "exception">>
    /\ nav.result = "empty"
    /\ ~nav.raised

\* the navigations of the call that came to one of the outcomes
NavigationsWith(outcomes) ==
    {k \in 1..Len(nav.outcomes) : nav.outcomes[k] \in outcomes}

\* the k-th navigation was followed by a retry
Retried(k) == k < Len(nav.outcomes) \/ (k = Len(nav.outcomes) /\ nav.pc = "call")

\* C32: a navigation answered with a 4xx status other than 429 is the last
\* of the call: no sleep follows it, no retry, and the call returns []
C32_ClientErrorIsTerminal ==
    \A k \in NavigationsWith({"client_error"}) :
        /\ k = Len(nav.outcomes)
        /\ ~Retried(k)
        /\ nav.sleeps[k] = 0
        /\ nav.pc = "returned"
        /\ nav.result = "empty"
        /\ ~nav.raised

\* a server error was retried, the retry got a 404 and the call ended
C32_Witness ==
    /\ nav.outcomes = <<"server_error", "client_error">>
    /\ nav.sleeps = <<2 * scraper.delay_seconds, 0>>
    /\ nav.pc = "returned"
    /\ nav.result = "empty"

\* C33: a 429 on the navigation with retry_count = a is followed by a sleep
\* of delay_seconds * 2^(a+1); it is retried while a < 3, so a call makes at
\* most 3 retries, and a 429 on the last one ends the call with [] and
\* without an exception
C33_RateLimitBackoff ==
    /\ \A k \in NavigationsWith({"rate_limited"}) :
          /\ nav.sleeps[k] = scraper.delay_seconds * Pow2(k)
          /\ k <= MAX_RETRIES => Retried(k)
          /\ k = MAX_RETRIES + 1 =>
                nav.pc = "returned" /\ nav.result = "empty"
    /\ Len(nav.outcomes) <= MAX_RETRIES + 1
    /\ ~nav.raised

\* four navigations answered with 429: sleeps of 2, 4, 8 and 16 times the
\* delay, then the empty list
C33_Witness ==
    /\ nav.outcomes = <<"rate_limited", "rate_limited", "rate_limited", "rate_limited">>
    /\ nav.sleeps = <<2 * scraper.delay_seconds, 4 * scraper.delay_seconds,
                      8 * scraper.delay_seconds, 16 * scraper.delay_seconds>>
    /\ nav.pc = "returned"
    /\ nav.result = "empty"

\* C34: a navigation without response or with an exception is retried while
\* fewer than 3 retries were made, and of two such navigations in a row that
\* are both retried the second is followed by twice the sleep of the first
C34_TransientBackoffDoubles ==
    \A k \in NavigationsWith({"no_response", "exception"}) :
        /\ k <= MAX_RETRIES => Retried(k)
        /\ (k + 1 \in NavigationsWith({"no_response", "exception"}) /\ Retried(k + 1)) =>
              nav.sleeps[k + 1] = 2 * nav.sleeps[k]

(***************************************************************************)
(* FallbackSpec: single-session jobs on pools of up to three proxies, any  *)
(* attempt failing at its launch or at its release                         *)
(***************************************************************************)
FallbackInit ==
    /\ concurrency = ClampConcurrency(MinConcurrency)
    /\ \E cats \in CategoryLists, kws \in KeywordLists : tasks = PlanTasks(cats, kws)
    /\ proxy_pool \in AssignmentPools
    /\ page_limit = JobPageLimit
    /\ robots_txt \in RobotsRules
    /\ job_pc = "single"
    /\ listings_by_id = EmptyMap
    /\ total_pages_scraped = 0
    /\ seen_external_ids = {}
    /\ task_queue = << >>
    /\ result_queue = << >>
    /\ workers = << >>
    /\ workers_done = 0
    /\ tasks_done = 0
    /\ single = SingleStart
    /\ term_seen = [i \in 1..Len(tasks) |-> 0]
    /\ failures = 0
    /\ scr = ScrapeStart
    /\ page_log = << >>
    /\ merge_base = EmptyMap
    /\ merge_args = << >>
    /\ scraper = NewScraper(DefaultDelay)
    /\ submit = NoSubmit
    /\ job_record = RunningRecord
    /\ published = << >>
    /\ consumer = NoConsumer
    /\ clock = 0
    /\ nav = NoNav
    /\ proxy_run = NoProxyRun
    /\ plan = NoPlan
    /\ manager = NoManager
    /\ gate = NoGate

FallbackNext ==
    \/ SingleOpen
    \/ SingleTask
    \/ SingleClose
    \/ SingleEnd
    \/ Finalize

FallbackSpec == FallbackInit /\ [][FallbackNext]_vars

\* the candidates of a single-session job in the order the claim gives:
\* the pool from its head, then the direct connection
CandidateOrder == proxy_pool \o <<Direct>>

\* C21: in single-session mode the attempts are made on the primary proxy,
\* then on the rest of the pool in pool order, then directly; nothing is
\* attempted after an attempt whose session opened; and the job raises
\* only if every candidate, the direct connection included, failed to open
C21_FirstOpenedSessionIsUsed ==
    job_pc \in {"single", "raised", "collected"} =>
        /\ IsPrefix(single.tried, CandidateOrder)
        /\ single.opens <= 1
        /\ single.opens = 1 =>
              \/ single.pc \in {"task", "close", "end"}
              \/ job_pc = "collected"
        /\ job_pc = "raised" =>
              /\ single.tried = CandidateOrder
              /\ single.opens = 0

(***************************************************************************)
(* SeenSpec: the page loops of the workers' _scrape_task calls on the      *)
(* job-wide seen-id set, the block under seen_lock taken statement by      *)
(* statement                                                               *)
(***************************************************************************)
\* the statements of "with seen_lock:" a thread can be at
CriticalSection == {"update", "after"}

\* faulty variant: the block is entered whoever is in it
SeenLockIgnored(ws) == TRUE

\* seen_lock can be acquired: no thread is inside a "with seen_lock:" block
SeenLockFree(ws) == \A w \in DOMAIN ws : ws[w].pc \notin CriticalSection

\* the local state of a thread in the page loop; counted: the sum of the
\* new_count values it has computed
SeenWorkerStart ==
    [pc |-> "fetch", ext_ids |-> {}, before |-> 0, pages |-> 0, counted |-> 0]

\* what a page holds in this model: listings over the ids 1 .. JobIds
SeenPages ==
    {<< >>, <<Listing(NoId, 1)>>}
    \cup {<<Listing(i, 1)>> : i \in 1..JobIds}
    \cup {<<Listing(i, 1), Listing(j, 1)>> : i, j \in 1..JobIds}

SeenInit ==
    /\ concurrency = MaxWorkers
    /\ tasks = << >>
    /\ proxy_pool = << >>
    /\ robots_txt = {}
    /\ job_pc = "none"
    /\ total_pages_scraped = 0
    /\ task_queue = << >>
    /\ result_queue = << >>
    /\ workers = [w \in WorkerSlots |-> SeenWorkerStart]
    /\ workers_done = 0
    /\ tasks_done = 0
    /\ single = SingleStart
    /\ term_seen = << >>
    /\ failures = 0
    /\ page_limit = JobPageLimit
    /\ listings_by_id = EmptyMap
    /\ seen_external_ids = {}
    /\ scr = ScrapeStart
    /\ page_log = << >>
    /\ merge_base = EmptyMap
    /\ merge_args = << >>
    /\ scraper = NewScraper(DefaultDelay)
    /\ FeedIdle
    /\ nav = NoNav
    /\ proxy_run = NoProxyRun
    /\ plan = NoPlan
    /\ manager = NoManager
    /\ gate = NoGate

seenFrame == <<configVars, job_pc, listings_by_id, total_pages_scraped,
               task_queue, result_queue, workers_done, tasks_done, single,
               obsVars, modelVars>>

\* page_listings = scraper.scrape_page(...); ext_ids = [...]; a page
\* without ids has new_count = 0 and does not take the lock
SeenFetch(w) ==
    /\ workers[w].pc = "fetch"
    /\ workers[w].pages < MaxSeenPages
    /\ \E page_listings \in SeenPages :
          workers' = [workers EXCEPT ![w] =
              [@ EXCEPT !.pages = @ + 1,
                        !.ext_ids = ExtIdsOf(page_listings),
                        !.pc = IF ExtIdsOf(page_listings) # {}
                               THEN "lock" ELSE "fetch"]]
    /\ UNCHANGED <<seenFrame, seen_external_ids>>

\* "with seen_lock:" is entered; before = len(seen_external_ids)
SeenAcquire(w) ==
    /\ workers[w].pc = "lock"
    /\ SeenLockFree(workers)
    /\ workers' = [workers EXCEPT ![w] =
          [@ EXCEPT !.before = Cardinality(seen_external_ids), !.pc = "update"]]
    /\ UNCHANGED <<seenFrame, seen_external_ids>>

\* seen_external_ids.update(ext_ids)
SeenUpdate(w) ==
    /\ workers[w].pc = "update"
    /\ seen_external_ids' = seen_external_ids \cup workers[w].ext_ids
    /\ workers' = [workers EXCEPT ![w] = [@ EXCEPT !.pc = "after"]]
    /\ UNCHANGED seenFrame

\* after = len(seen_external_ids); the block is left;
\* new_count = after - before
SeenRelease(w) ==
    /\ workers[w].pc = "after"
    /\ workers' = [workers EXCEPT ![w] =
          [@ EXCEPT !.counted = @ + (Cardinality(seen_external_ids)
                                        - workers[w].before),
                    !.pc = "fetch"]]
    /\ UNCHANGED <<seenFrame, seen_external_ids>>

SeenNext ==
    \/ \E w \in WorkerSlots : SeenFetch(w)
    \/ \E w \in WorkerSlots : SeenAcquire(w)
    \/ \E w \in WorkerSlots : SeenUpdate(w)
    \/ \E w \in WorkerSlots : SeenRelease(w)

SeenSpec == SeenInit /\ [][SeenNext]_vars

RECURSIVE SumCounted(_, _)
SumCounted(ws, S) ==
    IF S = {} THEN 0
    ELSE LET w == CHOOSE x \in S : TRUE
         IN ws[w].counted + SumCounted(ws, S \ {w})

\* C24: the seen-id set only grows, at most one thread is inside the block
\* under seen_lock, and whenever no thread is inside it the new_count values
\* of all page fetches of all workers add up to the size of the set: every
\* id was counted as new by one page fetch
C24_SeenSetCountsEachIdOnce ==
    [][/\ seen_external_ids \subseteq seen_external_ids'
       /\ Cardinality({w \in DOMAIN workers' :
                          workers'[w].pc \in CriticalSection}) <= 1
       /\ SeenLockFree(workers') =>
             SumCounted(workers', DOMAIN workers') = Cardinality(seen_external_ids')
      ]_vars

\* both workers have fetched two pages, each found an id the other found
\* too, and each id was counted once
C24_Witness ==
    /\ \A w \in DOMAIN workers : workers[w].pages = MaxSeenPages /\ workers[w].pc = "fetch"
    /\ seen_external_ids = 1..JobIds
    /\ workers[0].counted = 1
    /\ workers[1].counted = 1
    /\ workers[0].ext_ids = workers[1].ext_ids
    /\ Cardinality(workers[0].ext_ids) = 2

(***************************************************************************)
(* Task planning: the lists of admin_config and the tasks made of them     *)
(***************************************************************************)
\* a configured list is a string, modelled as the sequence of its
\* characters; Blank stands for white space, Comma for the separator
Blank == " "
Comma == ","
KeywordChars == {"a", "b", Blank, Comma}
CategoryChars == {"c", "d", Blank, Comma}

\* the strings over an alphabet of at most n characters
RECURSIVE StringsUpTo(_, _)
StringsUpTo(chars, n) ==
    IF n = 0 THEN {<< >>}
    ELSE LET shorter == StringsUpTo(chars, n - 1)
         IN shorter \cup {Append(st, ch) : st \in shorter, ch \in chars}

\* the string of a sequence of characters
RECURSIVE JoinChars(_)
JoinChars(cs) == IF cs = << >> THEN "" ELSE Head(cs) \o JoinChars(Tail(cs))

\* faulty variant: white space is kept
StripNothing(cs) == cs

\* str.strip(): leading and trailing white space removed
RECURSIVE Strip(_)
Strip(cs) ==
    IF cs = << >> THEN cs
    ELSE IF Head(cs) = Blank THEN Strip(Tail(cs))
    ELSE IF cs[Len(cs)] = Blank THEN Strip(SubSeq(cs, 1, Len(cs) - 1))
    ELSE cs

\* str.split(','): the pieces between the commas, the empty ones included;
\* the split of the empty string is ['']
RECURSIVE SplitCommas(_)
SplitCommas(cs) ==
    IF \A i \in 1..Len(cs) : cs[i] # Comma THEN <<cs>>
    ELSE LET first == CHOOSE i \in 1..Len(cs) :
                          cs[i] = Comma /\ \A j \in 1..(i - 1) : cs[j] # Comma
         IN <<SubSeq(cs, 1, first - 1)>>
                \o SplitCommas(SubSeq(cs, first + 1, Len(cs)))

\* [k.strip() for k in pieces if k.strip()]
RECURSIVE StrippedNonEmpty(_)
StrippedNonEmpty(pieces) ==
    IF pieces = << >> THEN << >>
    ELSE LET k == Strip(Head(pieces))
         IN (IF k = << >> THEN << >> ELSE <<JoinChars(k)>>)
                \o StrippedNonEmpty(Tail(pieces))

\* keywords_list, and categories_list before its default
ParseList(value) == StrippedNonEmpty(SplitCommas(Strip(value)))

PlanStart(categories, keywords) ==
    [pc |-> "config", categories |-> categories, keywords |-> keywords,
     tasks |-> << >>, total_tasks |-> 0]

PlanInit ==
    /\ CoreIdle
    /\ FeedIdle
    /\ nav = NoNav
    /\ proxy_run = NoProxyRun
    /\ manager = NoManager
    /\ gate = NoGate
    /\ \E categories \in StringsUpTo(CategoryChars, MaxConfigLen),
          keywords \in StringsUpTo(KeywordChars, MaxConfigLen) :
          plan = PlanStart(categories, keywords)

\* the planning lines of _run_scraper_job
PlanJob ==
    /\ plan.pc = "config"
    /\ LET ts == PlanTasks(ParseList(plan.categories), ParseList(plan.keywords))
       IN plan' = [plan EXCEPT !.pc = "planned", !.tasks = ts,
                               !.total_tasks = TotalTasks(ts)]
    /\ UNCHANGED <<coreVars, feedVars, nav, proxy_run, manager, gate>>

PlanNext == PlanJob

PlanSpec == PlanInit /\ [][PlanNext]_vars

\* the entries of a configured list: the stretches between its commas that
\* hold a character other than white space, as <<first, last>> positions of
\* their outermost such characters
Entries(value) ==
    {pos \in (1..Len(value)) \X (1..Len(value)) :
        /\ pos[1] <= pos[2]
        /\ value[pos[1]] \notin {Blank, Comma}
        /\ value[pos[2]] \notin {Blank, Comma}
        /\ \A i \in pos[1]..pos[2] : value[i] # Comma
        /\ \A i \in 1..(pos[1] - 1) :
              value[i] # Blank => \E j \in i..(pos[1] - 1) : value[j] = Comma
        /\ \A i \in (pos[2] + 1)..Len(value) :
              value[i] # Blank => \E j \in (pos[2] + 1)..i : value[j] = Comma}

\* the n-th entry from the left, as a string
EntryAt(value, n) ==
    LET pos == CHOOSE q \in Entries(value) :
                   Cardinality({r \in Entries(value) : r[1] < q[1]}) = n - 1
    IN JoinChars(SubSeq(value, pos[1], pos[2]))

\* C28: the tasks are the cross product of the trimmed non-empty categories
\* and keywords, category-major; without a keyword every category gets one
\* task with the empty keyword, without a category the default category is
\* used, and total_tasks is max(len(tasks), 1)
C28_PlanIsCrossProduct ==
    plan.pc = "planned" =>
        LET nc == Cardinality(Entries(plan.categories))
            nk == Cardinality(Entries(plan.keywords))
            CategoryAt(a) == IF nc = 0 THEN DefaultCategory
                             ELSE EntryAt(plan.categories, a)
            KeywordAt(b) == IF nk = 0 THEN NoKeyword
                            ELSE EntryAt(plan.keywords, b)
            rows == Max(nc, 1)
            cols == Max(nk, 1)
        IN /\ Len(plan.tasks) = rows * cols
           /\ \A a \in 1..rows, b \in 1..cols :
                 plan.tasks[(a - 1) * cols + b] =
                     [category |-> CategoryAt(a), keyword |-> KeywordAt(b)]
           /\ plan.total_tasks = Max(Len(plan.tasks), 1)

\* the lists "c, d" and "a,,b" were planned as four tasks
C28_Witness ==
    /\ plan.pc = "planned"
    /\ plan.categories = <<"c", Comma, Blank, "d">>
    /\ plan.keywords = <<"a", Comma, Comma, "b">>
    /\ plan.tasks = <<[category |-> "c", keyword |-> "a"],
                      [category |-> "c", keyword |-> "b"],
                      [category |-> "d", keyword |-> "a"],
                      [category |-> "d", keyword |-> "b"]>>
    /\ plan.total_tasks = 4

(***************************************************************************)
(* The progress manager: _save_job_progress, publish, complete, subscribe  *)
(***************************************************************************)
\* queue.Queue(maxsize=100)
QueueMaxSize == 100

\* no entry in _current_progress
NoCurrent == [keyword_index |-> 0, completed |-> FALSE, timestamp |-> 0]

\* the n-th progress dict a job saves
ProgressDict(n) == [keyword_index |-> n, completed |-> FALSE, timestamp |-> 0]

\* datetime.utcnow() of the k-th call
UtcNow(k) == k

\* what a snapshot says, its time stamp apart
SnapshotFields(snapshot) ==
    [keyword_index |-> snapshot.keyword_index, completed |-> snapshot.completed]

ManagerStart ==
    [pc |-> "ready", recorded |-> 0, terminal |-> FALSE, utcnow_calls |-> 0,
     has_current |-> FALSE, current_progress |-> NoCurrent,
     subscribers |-> << >>,
     queues |-> [i \in SubscriberIds |-> << >>],
     stream |-> [i \in SubscriberIds |-> "none"]]

SseInit ==
    /\ CoreIdle
    /\ submit = NoSubmit
    /\ job_record = [NoRecord EXCEPT !.status = "running", !.history = <<"running">>]
    /\ published = << >>
    /\ consumer = NoConsumer
    /\ clock = 0
    /\ nav = NoNav
    /\ proxy_run = NoProxyRun
    /\ plan = NoPlan
    /\ manager = ManagerStart
    /\ gate = NoGate

\* the list without the element
RECURSIVE ListRemove(_, _)
ListRemove(list, x) ==
    IF list = << >> THEN << >>
    ELSE IF Head(list) = x THEN Tail(list)
    ELSE <<Head(list)>> \o ListRemove(Tail(list), x)

ListElements(list) == {list[k] : k \in 1..Len(list)}

\* the subscribers left after the removal of the dead queues, in list order
RECURSIVE WithoutDead(_, _)
WithoutDead(list, dead) ==
    IF list = << >> THEN << >>
    ELSE (IF Head(list) \in dead THEN << >> ELSE <<Head(list)>>)
             \o WithoutDead(Tail(list), dead)

\* faulty variant: put_nowait on a full queue drops the oldest entry
PutDroppingOldest(q, progress) ==
    IF Len(q) < QueueMaxSize THEN Append(q, progress)
    ELSE Append(Tail(q), progress)

\* q.put_nowait(progress), queue.Full caught: a full queue is left as it is
PutNowait(q, progress) ==
    IF Len(q) < QueueMaxSize THEN Append(q, progress) ELSE q

\* ScraperProgressManager.publish
Publish(m, progress) ==
    LET stamped == [progress EXCEPT !.timestamp = UtcNow(m.utcnow_calls + 2)]
        dead_queues == {i \in ListElements(m.subscribers) :
                            Len(m.queues[i]) >= QueueMaxSize}
    IN [m EXCEPT !.has_current = TRUE,
                 !.current_progress = stamped,
                 !.queues = [i \in SubscriberIds |->
                                IF i \in ListElements(m.subscribers)
                                THEN PutNowait(m.queues[i], stamped)
                                ELSE m.queues[i]],
                 !.subscribers = WithoutDead(@, dead_queues)]

\* ScraperProgressManager.complete
Complete(m, final_status) ==
    LET stamped == [final_status EXCEPT !.timestamp = UtcNow(m.utcnow_calls + 2),
                                        !.completed = TRUE]
    IN [m EXCEPT !.has_current = TRUE,
                 !.current_progress = stamped,
                 !.queues = [i \in SubscriberIds |->
                                IF i \in ListElements(m.subscribers)
                                THEN PutNowait(m.queues[i], stamped)
                                ELSE m.queues[i]]]

\* _save_job_progress(job, progress, completed=...): the job saves its next
\* snapshot; the terminal one is the last. Only SlowSubscriber is let fall
\* behind by more than MaxPending snapshots
RecordSnapshot(completed) ==
    /\ manager.pc = "ready"
    /\ ~manager.terminal
    /\ manager.recorded < MaxRecords
    /\ \A i \in ListElements(manager.subscribers) \ {SlowSubscriber} :
          Len(manager.queues[i]) < MaxPending
    /\ LET payload == [ProgressDict(manager.recorded + 1) EXCEPT
                          !.timestamp = UtcNow(manager.utcnow_calls + 1),
                          !.completed = completed]
           handed == IF completed THEN Complete(manager, payload)
                     ELSE Publish(manager, payload)
       IN /\ job_record' = [job_record EXCEPT !.progress_json = payload]
          /\ manager' = [handed EXCEPT !.recorded = @ + 1,
                                       !.terminal = completed,
                                       !.utcnow_calls = @ + 2]
    /\ UNCHANGED <<coreVars, submit, published, consumer, clock, nav, proxy_run, plan, gate>>

\* ScraperProgressManager.subscribe, called by generate_sse_stream
Subscribe(i) ==
    /\ manager.pc = "ready"
    /\ manager.stream[i] = "none"
    /\ manager' = [manager EXCEPT
                      !.subscribers = Append(@, i),
                      !.queues[i] = IF manager.has_current
                                    THEN <<manager.current_progress>> ELSE << >>,
                      !.stream[i] = "streaming"]
    /\ UNCHANGED <<coreVars, feedVars, nav, proxy_run, plan, gate>>

\* ScraperProgressManager.unsubscribe; the queue goes with its generator
Unsubscribed(m, i) ==
    [m EXCEPT !.subscribers = ListRemove(@, i),
              !.queues[i] = << >>,
              !.stream[i] = "closed"]

\* generate_sse_stream: q.get() returns a snapshot, the event is sent, and
\* a completed snapshot ends the stream
StreamGet(i) ==
    /\ manager.pc = "ready"
    /\ manager.stream[i] = "streaming"
    /\ manager.queues[i] # << >>
    /\ manager' = IF Head(manager.queues[i]).completed
                  THEN Unsubscribed(manager, i)
                  ELSE [manager EXCEPT !.queues[i] = Tail(@)]
    /\ UNCHANGED <<coreVars, feedVars, nav, proxy_run, plan, gate>>

\* generate_sse_stream: the client goes away, the generator is closed
StreamClose(i) ==
    /\ manager.pc = "ready"
    /\ manager.stream[i] = "streaming"
    /\ manager' = Unsubscribed(manager, i)
    /\ UNCHANGED <<coreVars, feedVars, nav, proxy_run, plan, gate>>

SseNext ==
    \/ \E completed \in BOOLEAN : RecordSnapshot(completed)
    \/ \E i \in SubscriberIds : Subscribe(i)
    \/ \E i \in SubscriberIds : StreamGet(i)
    \/ \E i \in SubscriberIds : StreamClose(i)

SseSpec == SseInit /\ [][SseNext]_vars

\* a step that records a snapshot
Recording == manager'.recorded = manager.recorded + 1

\* C29: a record call leaves the persisted snapshot and the manager's
\* current snapshot equal to the snapshot recorded, and has pushed it to
\* the end of the queue of every subscriber registered at the call; a
\* subscribe call puts the current snapshot into the new queue
C29_RecordKeepsLatestAndPushes ==
    [][/\ Recording =>
            /\ job_record'.progress_json.keyword_index = manager'.recorded
            /\ manager'.has_current
            /\ SnapshotFields(manager'.current_progress)
                   = SnapshotFields(job_record'.progress_json)
            /\ \A i \in ListElements(manager.subscribers) :
                   manager'.queues[i]
                       = Append(manager.queues[i], manager'.current_progress)
       /\ \A i \in SubscriberIds :
            (manager.stream[i] = "none" /\ manager'.stream[i] = "streaming") =>
                /\ i \in ListElements(manager'.subscribers)
                /\ manager.has_current =>
                       manager'.queues[i] = <<manager.current_progress>>]_vars

\* the completed snapshot waits in the queue of stream i
CompletedPending(i) ==
    \E k \in 1..Len(manager.queues[i]) : manager.queues[i][k].completed

\* C40: once complete() was called, every stream that is still open has the
\* completed snapshot in its queue, so its consumer comes to it, sends the
\* complete event and unsubscribes; this covers a subscriber that came
\* after the call and one whose queue was full at an earlier publish
C40_CompletedReachesEverySubscriber ==
    (manager.pc = "ready" /\ manager.terminal) =>
        \A i \in SubscriberIds :
            manager.stream[i] = "streaming" => CompletedPending(i)

(***************************************************************************)
(* The robots gate: one RobotsChecker, fetched and asked repeatedly        *)
(***************************************************************************)
\* self._parser: None, or a RobotFileParser that has parsed rules
\* disallowing a set of paths
NoParser == [parsed |-> FALSE, disallow |-> {}]
RobotFileParser(rules) == [parsed |-> TRUE, disallow |-> rules]
\* is_allowed was not called since the last fetch
NotAsked == "none"

\* what page.goto(robots_url) can come to: no response, a response that is
\* not ok, an exception of goto or of response.text(), the site's rules
FetchResults == {"no_response", "not_ok", "exception", "ok"}

\* the paths fetch_robots and is_allowed are tried on
GatePaths == {RootPath, "c225"}

\* RobotsChecker.__init__; fetches: the results of its fetch_robots calls,
\* asked, answer: the last is_allowed call since the last fetch
GateStart(rules) ==
    [pc |-> "ready", rules |-> rules, parser |-> NoParser, fetched |-> FALSE,
     fetches |-> << >>, asked |-> NotAsked, answer |-> FALSE]

\* faulty variant: a fetch that fails leaves _fetched as it was
FetchFailureIgnored(checker, result) ==
    IF result = "ok"
    THEN [checker EXCEPT !.parser = RobotFileParser(checker.rules),
                         !.fetched = TRUE]
    ELSE checker

\* RobotsChecker.fetch_robots: every failure sets _fetched = False and
\* leaves _parser alone
FetchedRobots(checker, result) ==
    IF result = "ok"
    THEN [checker EXCEPT !.parser = RobotFileParser(checker.rules),
                         !.fetched = TRUE]
    ELSE [checker EXCEPT !.fetched = FALSE]

\* RobotFileParser.can_fetch('*', url) on rules that disallow a set of paths
can_fetch(parser, path) == path \notin parser.disallow

\* RobotsChecker.is_allowed
GateAllows(checker, path) ==
    IF ~checker.fetched \/ checker.parser = NoParser
    THEN TRUE
    ELSE can_fetch(checker.parser, path)

GateInit ==
    /\ CoreIdle
    /\ FeedIdle
    /\ nav = NoNav
    /\ proxy_run = NoProxyRun
    /\ plan = NoPlan
    /\ manager = NoManager
    /\ \E rules \in RobotsRules : gate = GateStart(rules)

GateFetch(result) ==
    /\ gate.pc = "ready"
    /\ Len(gate.fetches) < MaxFetches
    /\ gate' = [FetchedRobots(gate, result) EXCEPT
                   !.fetches = Append(@, result), !.asked = NotAsked,
                   !.answer = FALSE]
    /\ UNCHANGED <<coreVars, feedVars, nav, proxy_run, plan, manager>>

GateAsk(path) ==
    /\ gate.pc = "ready"
    /\ gate' = [gate EXCEPT !.asked = path, !.answer = GateAllows(gate, path)]
    /\ UNCHANGED <<coreVars, feedVars, nav, proxy_run, plan, manager>>

GateNext ==
    \/ \E result \in FetchResults : GateFetch(result)
    \/ \E path \in GatePaths : GateAsk(path)

GateSpec == GateInit /\ [][GateNext]_vars

\* the last fetch_robots call of the checker failed
LastFetchFailed ==
    gate.fetches # << >> /\ gate.fetches[Len(gate.fetches)] # "ok"

\* C31: after a fetch that failed (no response, response not ok, exception)
\* the rules are unknown, also when an earlier fetch had succeeded, and as
\* long as they are unknown every path asked for is allowed; after a fetch
\* that succeeded the site's rules decide
C31_RobotsGateFailsOpen ==
    /\ LastFetchFailed => ~gate.fetched
    /\ (~gate.fetched /\ gate.asked # NotAsked) => gate.answer
    /\ (gate.fetches # << >> /\ ~LastFetchFailed) =>
          /\ gate.fetched
          /\ gate.asked # NotAsked => (gate.answer <=> gate.asked \notin gate.rules)

\* the site disallows the root path, the first fetch succeeded, the second
\* did not, and the root path asked for afterwards was allowed
C31_Witness ==
    /\ gate.pc = "ready"
    /\ gate.rules = {RootPath}
    /\ gate.fetches = <<"ok", "not_ok">>
    /\ gate.parser = RobotFileParser({RootPath})
    /\ gate.asked = RootPath
    /\ gate.answer

====
